---------------------------- MODULE Spec2Model ----------------------------
(***************************************************************************)
(* Grid simulation of granular particles and rigid, breakable objects      *)
(* (src/src/lib.rs) together with the per-frame systems that drive it      *)
(* (src/src/main.rs).                                                      *)
(*                                                                         *)
(* Numbers.  The f32 values of the program are modelled in exact           *)
(* fixed-point arithmetic:                                                 *)
(*   - positions, velocities and gravity in units of 1/PosUnit cell        *)
(*     (every value the program produces from gravity -1.0 or -0.5 and     *)
(*     integer start cells is a multiple of 0.5);                          *)
(*   - masses, pressures and bond strengths in units of 1/MassUnit         *)
(*     (the smallest density of the catalog is 0.001).                     *)
(* A comparison of a quotient (force / (row+1), sum / len) is modelled by  *)
(* the cross-multiplied comparison of integers, i.e. without f32 rounding. *)
(***************************************************************************)
EXTENDS Integers, Sequences, FiniteSets, TLC

(***************************************************************************)
(* Bounds of the model.                                                    *)
(***************************************************************************)
\* The simulated world of the frame systems (main.rs uses 120 x 100).
GridW == 3
GridH == 7
\* The world of the specification with two stacked objects.
StackW == 2
StackH == 10
\* Extent of the static block that setup places in the middle of the floor.
KlotzW == 1
KlotzH == 1
\* Edge length of a block spawned by a plain click (main.rs uses 3).
BlockSize == 2
\* How many particles / objects the spawn systems may create in one run.
MaxSpawnParticles == 1
MaxSpawnObjects == 1
MaxStackObjects == 2

(***************************************************************************)
(* Units.                                                                  *)
(***************************************************************************)
PosUnit == 2
MassUnit == 1000

(***************************************************************************)
(* Small helpers.                                                          *)
(***************************************************************************)
Abs(n) == IF n < 0 THEN -n ELSE n

Min2(a, b) == IF a < b THEN a ELSE b

RECURSIVE SumSeq(_)
SumSeq(s) == IF s = <<>> THEN 0 ELSE Head(s) + SumSeq(Tail(s))

\* TLC evaluates the argument of an operator when it is first used.  A loop
\* written as a recursive operator tests Evaluated(v) on the value v it
\* hands from one iteration to the next, so that v is computed in the
\* iteration that produces it.
Evaluated(v) == DOMAIN v = DOMAIN v

\* `f as usize` for an f32 f: truncation toward zero, negative values
\* saturate to 0.
AsUsize(p) == IF p < 0 THEN 0 ELSE p \div PosUnit

\* `f as i32` for an f32 f: truncation toward zero.
AsI32(p) == IF p < 0 THEN -((-p) \div PosUnit) ELSE p \div PosUnit

\* An integer cell coordinate as f32.
AsF32(n) == n * PosUnit

(***************************************************************************)
(* ParticleRef                                                             *)
(***************************************************************************)
NoRef == [kind |-> "None", a |-> 0, b |-> 0, c |-> 0]

Free(idx) == [kind |-> "Free", a |-> idx, b |-> 0, c |-> 0]

InObject(o, i, j) == [kind |-> "InObject", a |-> o, b |-> i, c |-> j]

Static == [kind |-> "Static", a |-> 0, b |-> 0, c |-> 0]

(***************************************************************************)
(* MaterialTyp                                                             *)
(***************************************************************************)
MaterialTyp == {"Sand", "Stein", "Metall", "Luft", "Wasser", "Holz"}

binding_strength(m) ==
    CASE m = "Sand"   -> 2 * MassUnit
      [] m = "Stein"  -> 80 * MassUnit
      [] m = "Metall" -> 200 * MassUnit
      [] m = "Luft"   -> 0
      [] m = "Wasser" -> 0
      [] m = "Holz"   -> 40 * MassUnit

density(m) ==
    CASE m = "Sand"   -> 1500
      [] m = "Stein"  -> 2500
      [] m = "Metall" -> 8000
      [] m = "Luft"   -> 1
      [] m = "Wasser" -> 1000
      [] m = "Holz"   -> 600

is_solid(m) ==
    CASE m = "Sand"   -> TRUE
      [] m = "Stein"  -> TRUE
      [] m = "Metall" -> TRUE
      [] m = "Luft"   -> FALSE
      [] m = "Wasser" -> FALSE
      [] m = "Holz"   -> TRUE

(***************************************************************************)
(* World                                                                   *)
(***************************************************************************)
EmptyCell == [occ |-> NoRef, mass |-> 0, pressure |-> 0]

World_new(h, w) ==
    [height |-> h, width |-> w,
     grid |-> [y \in 0 .. h - 1 |-> [x \in 0 .. w - 1 |-> EmptyCell]],
     panicked |-> FALSE]

InGrid(world, x, y) ==
    /\ x >= 0 /\ x < world.width
    /\ y >= 0 /\ y < world.height

\* Indexing self.grid[y][x] outside the vectors panics; the model records the
\* panic in the world and leaves the grid as it is.
give_pressure_on_position(world, x, y) ==
    IF InGrid(world, x, y) THEN world.grid[y][x].pressure ELSE 0

give_occupation_on_position(world, x, y) ==
    IF InGrid(world, x, y) THEN world.grid[y][x].occ
    ELSE [kind |-> "Panic", a |-> 0, b |-> 0, c |-> 0]

update_mass_on_position(world, pos, mass) ==
    LET x == AsUsize(pos[1])
        y == AsUsize(pos[2])
    IN  IF InGrid(world, x, y)
        THEN [world EXCEPT !.grid[y][x].mass = mass]
        ELSE [world EXCEPT !.panicked = TRUE]

update_occupation_on_position(world, pos, ref) ==
    LET x == AsUsize(pos[1])
        y == AsUsize(pos[2])
    IN  IF InGrid(world, x, y)
        THEN [world EXCEPT !.grid[y][x].occ = ref]
        ELSE [world EXCEPT !.panicked = TRUE]

clear_occupation_on_position(world, pos) ==
    LET x == AsUsize(pos[1])
        y == AsUsize(pos[2])
    IN  IF InGrid(world, x, y)
        THEN [world EXCEPT !.grid[y][x].occ = NoRef]
        ELSE [world EXCEPT !.panicked = TRUE]

\* A clear_mass_on_position that resets the whole cell, pressure included.
ClearMassAndPressure(world, pos) ==
    LET x == AsUsize(pos[1])
        y == AsUsize(pos[2])
    IN  IF InGrid(world, x, y)
        THEN [world EXCEPT !.grid[y][x].mass = 0, !.grid[y][x].pressure = 0]
        ELSE [world EXCEPT !.panicked = TRUE]

clear_mass_on_position(world, pos) ==
    LET x == AsUsize(pos[1])
        y == AsUsize(pos[2])
    IN  IF InGrid(world, x, y)
        THEN [world EXCEPT !.grid[y][x].mass = 0]
        ELSE [world EXCEPT !.panicked = TRUE]

\* A running sum that is stored before the mass of the cell is added.
RECURSIVE ColumnSumBeforeAdd(_, _, _)
ColumnSumBeforeAdd(world, x, y) ==
    IF y + 1 >= world.height THEN 0
    ELSE world.grid[y + 1][x].mass + ColumnSumBeforeAdd(world, x, y + 1)

\* A running sum that starts in row 0 and runs upwards.
RECURSIVE ColumnSumUpwards(_, _, _)
ColumnSumUpwards(world, x, y) ==
    IF y < 0 THEN 0
    ELSE world.grid[y][x].mass + ColumnSumUpwards(world, x, y - 1)

\* sum_pressure of column x after the iteration of row y: the loop runs from
\* the top row down, so it is the mass of the cell added to sum_pressure
\* after the iteration of row y + 1 (0.0 before the first iteration).
RECURSIVE ColumnSum(_, _, _)
ColumnSum(world, x, y) ==
    IF y >= world.height THEN 0
    ELSE world.grid[y][x].mass + ColumnSum(world, x, y + 1)

calc_pressure_on_all_position(world) ==
    [world EXCEPT !.grid =
        [y \in 0 .. world.height - 1 |->
            [x \in 0 .. world.width - 1 |->
                [world.grid[y][x] EXCEPT !.pressure = ColumnSum(world, x, y)]]]]

(***************************************************************************)
(* Particle                                                                *)
(***************************************************************************)
Particle_new(id, position, velocity, material, particle_ref) ==
    [id |-> id, position |-> position, velocity |-> velocity,
     material |-> material, particle_ref |-> particle_ref]

mass(p) == density(p.material)

\* The candidate cells of check_way, in the order the code pushes them:
\* (pressure, x, y) for every neighbour inside the grid except straight up.
check_way_values(p, world) ==
    LET own_x == AsI32(p.position[1])
        own_y == AsI32(p.position[2])
        max_x == world.width - 1
        max_y == world.height - 1
        can_go_left == own_x > 0
        can_go_right == own_x < max_x
        can_go_down == own_y > 0
        can_go_up == own_y < max_y
        Cand(ok, x, y) ==
            IF ok THEN << <<give_pressure_on_position(world, x, y), x, y>> >>
            ELSE <<>>
    IN  Cand(can_go_up /\ can_go_right, own_x + 1, own_y + 1)
        \o Cand(can_go_right, own_x + 1, own_y)
        \o Cand(can_go_down /\ can_go_right, own_x + 1, own_y - 1)
        \o Cand(can_go_down, own_x, own_y - 1)
        \o Cand(can_go_down /\ can_go_left, own_x - 1, own_y - 1)
        \o Cand(can_go_left, own_x - 1, own_y)
        \o Cand(can_go_up /\ can_go_left, own_x - 1, own_y + 1)

\* A check_way that returns the first candidate of minimal pressure instead
\* of a random one of them.
CheckWayFirstMinimum(p, world) ==
    LET values == check_way_values(p, world)
        idx == 1 .. Len(values)
        least == {k \in idx : \A m \in idx : values[k][1] <= values[m][1]}
    IN  {values[k] : k \in {k \in least : \A m \in least : k <= m}}

\* The set of results check_way can return: the random choice among the
\* candidates of minimal pressure; the empty set stands for None.
check_way(p, world) ==
    LET values == check_way_values(p, world)
        idx == 1 .. Len(values)
    IN  {values[k] : k \in {k \in idx : \A m \in idx : values[k][1] <= values[m][1]}}

\* A move that forgets to clear the mass of the cell it leaves.
MoveWithoutClearMass(p, world, target) ==
    LET w1 == clear_occupation_on_position(world, p.position)
        p2 == [p EXCEPT !.position = target]
        w3 == update_occupation_on_position(w1, p2.position, p2.particle_ref)
        w4 == update_mass_on_position(w3, p2.position, mass(p2))
    IN  [p |-> p2, world |-> w4]

\* A move that forgets to write the mass of the cell it enters.
MoveWithoutUpdateMass(p, world, target) ==
    LET w1 == clear_occupation_on_position(world, p.position)
        w2 == clear_mass_on_position(w1, p.position)
        p2 == [p EXCEPT !.position = target]
        w3 == update_occupation_on_position(w2, p2.position, p2.particle_ref)
    IN  [p |-> p2, world |-> w3]

\* Moves the particle to `target` (an f32 pair): clear old, set, write new.
MoveParticle(p, world, target) ==
    LET w1 == clear_occupation_on_position(world, p.position)
        w2 == clear_mass_on_position(w1, p.position)
        p2 == [p EXCEPT !.position = target]
        w3 == update_occupation_on_position(w2, p2.position, p2.particle_ref)
        w4 == update_mass_on_position(w3, p2.position, mass(p2))
    IN  [p |-> p2, world |-> w4]

\* A resolve_pressure that does not ask whether the target cell is free.
ResolveIntoOccupied(p, world, way) ==
    LET own_x == AsUsize(p.position[1])
        own_y == AsUsize(p.position[2])
        own_pressure == give_pressure_on_position(world, own_x, own_y)
    IN  IF own_pressure <= mass(p) THEN [p |-> p, world |-> world]
        ELSE IF way = <<>> THEN [p |-> p, world |-> world]
        ELSE IF way[1] < own_pressure /\ way[3] <= own_y
             THEN MoveParticle(p, world, <<AsF32(way[2]), AsF32(way[3])>>)
             ELSE [p |-> p, world |-> world]

\* A resolve_pressure whose early return needs a pressure strictly below the
\* particle's own mass.
ResolveAtOwnMass(p, world, way) ==
    LET own_x == AsUsize(p.position[1])
        own_y == AsUsize(p.position[2])
        own_pressure == give_pressure_on_position(world, own_x, own_y)
    IN  IF own_pressure < mass(p) THEN [p |-> p, world |-> world]
        ELSE IF way = <<>> THEN [p |-> p, world |-> world]
        ELSE IF /\ way[1] < own_pressure
                /\ way[3] <= own_y
                /\ give_occupation_on_position(world, way[2], way[3]) = NoRef
             THEN MoveParticle(p, world, <<AsF32(way[2]), AsF32(way[3])>>)
             ELSE [p |-> p, world |-> world]

\* A resolve_pressure without the early return for a particle that carries
\* no more than its own mass.
ResolveWithoutOwnMassCheck(p, world, way) ==
    LET own_x == AsUsize(p.position[1])
        own_y == AsUsize(p.position[2])
        own_pressure == give_pressure_on_position(world, own_x, own_y)
    IN  IF way = <<>> THEN [p |-> p, world |-> world]
        ELSE IF /\ way[1] < own_pressure
                /\ way[3] <= own_y
                /\ give_occupation_on_position(world, way[2], way[3]) = NoRef
             THEN MoveParticle(p, world, <<AsF32(way[2]), AsF32(way[3])>>)
             ELSE [p |-> p, world |-> world]

\* resolve_pressure for one outcome `way` of check_way (<<>> for None).
resolve_pressure_with(p, world, way) ==
    LET own_x == AsUsize(p.position[1])
        own_y == AsUsize(p.position[2])
        own_pressure == give_pressure_on_position(world, own_x, own_y)
    IN  IF own_pressure <= mass(p) THEN [p |-> p, world |-> world]
        ELSE IF way = <<>> THEN [p |-> p, world |-> world]
        ELSE IF /\ way[1] < own_pressure
                /\ way[3] <= own_y
                /\ give_occupation_on_position(world, way[2], way[3]) = NoRef
             THEN MoveParticle(p, world, <<AsF32(way[2]), AsF32(way[3])>>)
             ELSE [p |-> p, world |-> world]

\* Every result resolve_pressure can have.
resolve_pressure(p, world) ==
    LET ways == check_way(p, world)
    IN  IF ways = {} THEN {resolve_pressure_with(p, world, <<>>)}
        ELSE {resolve_pressure_with(p, world, way) : way \in ways}

\* A fall_down that looks down-right without testing x < width - 1: in the
\* rightmost column the read indexes the grid outside its vectors and panics.
FallDownUnguardedRight(p, world) ==
    LET x == AsI32(p.position[1])
        y == AsI32(p.position[2])
    IN  IF y <= 0 THEN [p |-> p, world |-> world]
        ELSE IF give_occupation_on_position(world, x, y - 1) = NoRef
        THEN MoveParticle(p, world, <<p.position[1], p.position[2] - PosUnit>>)
        ELSE IF x > 0 /\ give_occupation_on_position(world, x - 1, y - 1) = NoRef
        THEN MoveParticle(p, world,
                          <<p.position[1] - PosUnit, p.position[2] - PosUnit>>)
        ELSE IF ~InGrid(world, x + 1, y - 1)
        THEN [p |-> p, world |-> [world EXCEPT !.panicked = TRUE]]
        ELSE IF give_occupation_on_position(world, x + 1, y - 1) = NoRef
        THEN MoveParticle(p, world,
                          <<p.position[1] + PosUnit, p.position[2] - PosUnit>>)
        ELSE [p |-> p, world |-> world]

\* A fall_down that tries the cell down-right before the cell down-left.
FallDownRightFirst(p, world) ==
    LET x == AsI32(p.position[1])
        y == AsI32(p.position[2])
    IN  IF y <= 0 THEN [p |-> p, world |-> world]
        ELSE IF give_occupation_on_position(world, x, y - 1) = NoRef
        THEN MoveParticle(p, world, <<p.position[1], p.position[2] - PosUnit>>)
        ELSE IF /\ x < world.width - 1
                /\ give_occupation_on_position(world, x + 1, y - 1) = NoRef
        THEN MoveParticle(p, world,
                          <<p.position[1] + PosUnit, p.position[2] - PosUnit>>)
        ELSE IF x > 0 /\ give_occupation_on_position(world, x - 1, y - 1) = NoRef
        THEN MoveParticle(p, world,
                          <<p.position[1] - PosUnit, p.position[2] - PosUnit>>)
        ELSE [p |-> p, world |-> world]

fall_down(p, world) ==
    LET x == AsI32(p.position[1])
        y == AsI32(p.position[2])
    IN  IF y <= 0 THEN [p |-> p, world |-> world]
        ELSE IF give_occupation_on_position(world, x, y - 1) = NoRef
        THEN MoveParticle(p, world, <<p.position[1], p.position[2] - PosUnit>>)
        ELSE IF x > 0 /\ give_occupation_on_position(world, x - 1, y - 1) = NoRef
        THEN MoveParticle(p, world,
                          <<p.position[1] - PosUnit, p.position[2] - PosUnit>>)
        ELSE IF /\ x < world.width - 1
                /\ give_occupation_on_position(world, x + 1, y - 1) = NoRef
        THEN MoveParticle(p, world,
                          <<p.position[1] + PosUnit, p.position[2] - PosUnit>>)
        ELSE [p |-> p, world |-> world]

update_position(p, world) ==
    MoveParticle(p, world, <<p.position[1] + p.velocity[1],
                             p.position[2] + p.velocity[2]>>)

\* An update that looks at the floor before it looks at the probed cell.
UpdateVelocityFloorFirst(p, gravity, world) ==
    LET next_y == p.position[2] + p.velocity[2] + gravity[2]
        check_y == IF next_y < 0 THEN 0 ELSE next_y
    IN  IF next_y < 0
        THEN [p EXCEPT !.velocity[2] = -p.position[2]]
        ELSE IF give_occupation_on_position(world, AsUsize(p.position[1]),
                                            AsUsize(check_y)) # NoRef
        THEN [p EXCEPT !.velocity[2] = 0]
        ELSE [p EXCEPT !.velocity[2] = p.velocity[2] + gravity[2]]

\* An update that does not stop the fall at the bottom row.
UpdateVelocityWithoutFloor(p, gravity, world) ==
    LET next_y == p.position[2] + p.velocity[2] + gravity[2]
        check_y == IF next_y < 0 THEN 0 ELSE next_y
    IN  IF give_occupation_on_position(world, AsUsize(p.position[1]),
                                       AsUsize(check_y)) # NoRef
        THEN [p EXCEPT !.velocity[2] = 0]
        ELSE [p EXCEPT !.velocity[2] = p.velocity[2] + gravity[2]]

update_velocity(p, gravity, world) ==
    LET next_y == p.position[2] + p.velocity[2] + gravity[2]
        check_y == IF next_y < 0 THEN 0 ELSE next_y
    IN  IF give_occupation_on_position(world, AsUsize(p.position[1]),
                                       AsUsize(check_y)) # NoRef
        THEN [p EXCEPT !.velocity[2] = 0]
        ELSE IF next_y < 0
        THEN [p EXCEPT !.velocity[2] = -p.position[2]]
        ELSE [p EXCEPT !.velocity[2] = p.velocity[2] + gravity[2]]


(***************************************************************************)
(* Object                                                                  *)
(***************************************************************************)
\* The cells (i, j) of an h x w object grid in the order of the nested
\* loops `for i in 0..h { for j in 0..w { ... } }`.
RowMajor(h, w) == [k \in 1 .. h * w |-> <<(k - 1) \div w, (k - 1) % w>>]

Object_new(id, object_idx, position, velocity, material, h, w) ==
    [object_id |-> id,
     is_destroyed |-> FALSE,
     position |-> position,
     velocity |-> velocity,
     total_object_mass |-> (h * w) * density(material),
     object_h |-> h,
     object_w |-> w,
     object_grid |->
        [i \in 0 .. h - 1 |-> [j \in 0 .. w - 1 |->
            Particle_new(id * 100 + (i * w + j),
                         <<position[1] + AsF32(j), position[2] + AsF32(i)>>,
                         <<0, 0>>, material, InObject(object_idx, i, j))]]]

SetMin(S) == CHOOSE m \in S : \A n \in S : m <= n

SetMax(S) == CHOOSE m \in S : \A n \in S : m >= n

\* fragment_data.iter().find(...): the first entry at cell (x, y), or none.
FirstAt(fragment_data, x, y) ==
    LET hits == {k \in 1 .. Len(fragment_data) :
                    /\ AsUsize(fragment_data[k][1][1]) = x
                    /\ AsUsize(fragment_data[k][1][2]) = y}
    IN  IF hits = {} THEN 0 ELSE SetMin(hits)

\* A new_from_fragment that adds the mass of the Luft placeholders as well.
NewFromFragmentCountingAir(id, object_idx, fragment_data, velocity) ==
    LET xs == {AsUsize(fragment_data[k][1][1]) : k \in 1 .. Len(fragment_data)}
        ys == {AsUsize(fragment_data[k][1][2]) : k \in 1 .. Len(fragment_data)}
        min_x == SetMin(xs)
        max_x == SetMax(xs)
        min_y == SetMin(ys)
        max_y == SetMax(ys)
        w == max_x - min_x + 1
        h == max_y - min_y + 1
        MatAt(i, j) ==
            LET k == FirstAt(fragment_data, min_x + j, min_y + i)
            IN  IF k = 0 THEN "Luft" ELSE fragment_data[k][2]
        cells == RowMajor(h, w)
    IN  [object_id |-> id,
         is_destroyed |-> FALSE,
         position |-> <<AsF32(min_x), AsF32(min_y)>>,
         velocity |-> velocity,
         total_object_mass |->
            SumSeq([k \in 1 .. h * w |->
                      density(MatAt(cells[k][1], cells[k][2]))]),
         object_h |-> h,
         object_w |-> w,
         object_grid |->
            [i \in 0 .. h - 1 |-> [j \in 0 .. w - 1 |->
                Particle_new(id * 100 + (i * w + j),
                             <<AsF32(min_x + j), AsF32(min_y + i)>>,
                             velocity, MatAt(i, j), InObject(object_idx, i, j))]]]

new_from_fragment(id, object_idx, fragment_data, velocity) ==
    LET xs == {AsUsize(fragment_data[k][1][1]) : k \in 1 .. Len(fragment_data)}
        ys == {AsUsize(fragment_data[k][1][2]) : k \in 1 .. Len(fragment_data)}
        min_x == SetMin(xs)
        max_x == SetMax(xs)
        min_y == SetMin(ys)
        max_y == SetMax(ys)
        w == max_x - min_x + 1
        h == max_y - min_y + 1
        MatAt(i, j) ==
            LET k == FirstAt(fragment_data, min_x + j, min_y + i)
            IN  IF k = 0 THEN "Luft" ELSE fragment_data[k][2]
        cells == RowMajor(h, w)
    IN  [object_id |-> id,
         is_destroyed |-> FALSE,
         position |-> <<AsF32(min_x), AsF32(min_y)>>,
         velocity |-> velocity,
         total_object_mass |->
            SumSeq([k \in 1 .. h * w |->
                      IF MatAt(cells[k][1], cells[k][2]) # "Luft"
                      THEN density(MatAt(cells[k][1], cells[k][2])) ELSE 0]),
         object_h |-> h,
         object_w |-> w,
         object_grid |->
            [i \in 0 .. h - 1 |-> [j \in 0 .. w - 1 |->
                Particle_new(id * 100 + (i * w + j),
                             <<AsF32(min_x + j), AsF32(min_y + i)>>,
                             velocity, MatAt(i, j), InObject(object_idx, i, j))]]]

QuadrantMaterial(i, j) ==
    IF i < 2 /\ j < 2 THEN "Holz"
    ELSE IF i < 2 /\ j >= 2 THEN "Metall"
    ELSE IF i >= 2 /\ j < 2 THEN "Stein"
    ELSE "Holz"

new_quadrant(id, object_idx, position, velocity) ==
    LET h == 4
        w == 4
        cells == RowMajor(h, w)
    IN  [object_id |-> id,
         is_destroyed |-> FALSE,
         position |-> position,
         velocity |-> velocity,
         total_object_mass |->
            SumSeq([k \in 1 .. h * w |->
                      density(QuadrantMaterial(cells[k][1], cells[k][2]))]),
         object_h |-> h,
         object_w |-> w,
         object_grid |->
            [i \in 0 .. h - 1 |-> [j \in 0 .. w - 1 |->
                Particle_new(id * 100 + (i * w + j),
                             <<position[1] + AsF32(j), position[2] + AsF32(i)>>,
                             <<0, 0>>, QuadrantMaterial(i, j),
                             InObject(object_idx, i, j))]]]

get_object_elements(obj) ==
    LET cells == RowMajor(obj.object_h, obj.object_w)
    IN  [k \in 1 .. Len(cells) |-> obj.object_grid[cells[k][1]][cells[k][2]]]

get_object_mass(obj) == obj.total_object_mass

get_object_velocity(obj) == obj.velocity

MaterialAt(obj, i, j) == obj.object_grid[i][j].material

\* First loop of update_object_position / the loop of clear_from_world:
\* clears occupancy and mass at the positions of the elements k .. n.
RECURSIVE ClearElements(_, _, _, _)
ClearElements(elems, world, k, alsoAir) ==
    IF Evaluated(world) /\ k > Len(elems) THEN world
    ELSE IF alsoAir \/ elems[k].material # "Luft"
    THEN ClearElements(elems,
             clear_mass_on_position(
                 clear_occupation_on_position(world, elems[k].position),
                 elems[k].position),
             k + 1, alsoAir)
    ELSE ClearElements(elems, world, k + 1, alsoAir)

\* Writes occupancy and mass of the elements k .. n (of the non-air ones
\* only, unless alsoAir).
RECURSIVE WriteElements(_, _, _, _)
WriteElements(elems, world, k, alsoAir) ==
    IF Evaluated(world) /\ k > Len(elems) THEN world
    ELSE IF alsoAir \/ elems[k].material # "Luft"
    THEN WriteElements(elems,
             update_mass_on_position(
                 update_occupation_on_position(world, elems[k].position,
                                               elems[k].particle_ref),
                 elems[k].position, mass(elems[k])),
             k + 1, alsoAir)
    ELSE WriteElements(elems, world, k + 1, alsoAir)

update_object_position(obj, world) ==
    LET w1 == ClearElements(get_object_elements(obj), world, 1, FALSE)
        pos == <<obj.position[1] + obj.velocity[1],
                 obj.position[2] + obj.velocity[2]>>
        obj2 == [obj EXCEPT
                   !.position = pos,
                   !.object_grid =
                     [i \in 0 .. obj.object_h - 1 |->
                        [j \in 0 .. obj.object_w - 1 |->
                           [obj.object_grid[i][j] EXCEPT
                              !.position = <<pos[1] + AsF32(j),
                                             pos[2] + AsF32(i)>>]]]]
    IN  [obj |-> obj2,
         world |-> WriteElements(get_object_elements(obj2), w1, 1, FALSE)]

clear_from_world(obj, world) ==
    ClearElements(get_object_elements(obj), world, 1, TRUE)

extract_fragment_data(obj, fragment) ==
    [k \in 1 .. Len(fragment) |->
        <<obj.object_grid[fragment[k][1]][fragment[k][2]].position,
          obj.object_grid[fragment[k][1]][fragment[k][2]].material>>]

\* Impact force in units of 1 / (MassUnit * PosUnit).
calc_impact_force(obj, velocity_before_impact) ==
    obj.total_object_mass * Abs(velocity_before_impact)

\* A dampening factor averaged over the distinct collision references.
DampeningOverDistinct(collisions) ==
    LET refs == {collisions[k] : k \in 1 .. Len(collisions)}
    IN  IF collisions = <<>> THEN <<1, 1>>
        ELSE <<10 * Cardinality({r \in refs : r.kind = "Static"})
                 + 4 * Cardinality({r \in refs : r.kind = "Free"})
                 + 6 * Cardinality({r \in refs : r.kind \notin {"Static", "Free"}}),
               10 * Cardinality(refs)>>

\* The dampening factor as the fraction <<sum, 10 * len>> of the per-kind
\* constants 1.0, 0.4, 0.6 (in tenths); <<1, 1>> without collisions.
DampeningOf(ref) ==
    CASE ref.kind = "Static" -> 10
      [] ref.kind = "Free" -> 4
      [] OTHER -> 6

calc_dampening_factor(collisions) ==
    IF collisions = <<>> THEN <<1, 1>>
    ELSE <<SumSeq([k \in 1 .. Len(collisions) |-> DampeningOf(collisions[k])]),
           10 * Len(collisions)>>

\* A bond strength that halves the strength of the first material instead
\* of that of the weaker one.
BondStrengthOfFirst(mat_a, mat_b) ==
    IF mat_a = mat_b THEN binding_strength(mat_a)
    ELSE binding_strength(mat_a) \div 2

calc_bond_strength(mat_a, mat_b) ==
    LET strength_a == binding_strength(mat_a)
        strength_b == binding_strength(mat_b)
    IN  IF mat_a = mat_b THEN strength_a
        ELSE Min2(strength_a, strength_b) \div 2


\* A comparison that lets a force equal to the bond strength break the bond.
ForceReaches(impact_force, dampening, i, bond_strength) ==
    impact_force * dampening[1] >= bond_strength * PosUnit * dampening[2] * (i + 1)

\* A comparison with the full force in every row of the object.
ForceExceedsInAnyRow(impact_force, dampening, i, bond_strength) ==
    impact_force * dampening[1] > bond_strength * PosUnit * dampening[2]

\* A comparison turned round: a bond breaks when it is stronger than the force.
ForceBelow(impact_force, dampening, i, bond_strength) ==
    impact_force * dampening[1] < bond_strength * PosUnit * dampening[2] * (i + 1)

\* force_at_row > bond_strength, where force_at_row is
\* impact_force * dampening * (1 / (i + 1)); impact_force is in units of
\* 1 / (MassUnit * PosUnit), dampening the fraction <<num, den>> (den > 0).
ForceExceeds(impact_force, dampening, i, bond_strength) ==
    impact_force * dampening[1] > bond_strength * PosUnit * dampening[2] * (i + 1)

\* The bonds check_fracture pushes for cell (i, j).  A right neighbour of
\* air ends the cell's iteration (`continue`) before the up neighbour is
\* looked at.
FractureOfCell(obj, impact_force, dampening, i, j) ==
    LET mat_a == MaterialAt(obj, i, j)
        hasRight == j + 1 < obj.object_w
        hasUp == i + 1 < obj.object_h
        right ==
            IF /\ hasRight
               /\ MaterialAt(obj, i, j + 1) # "Luft"
               /\ ForceExceeds(impact_force, dampening, i,
                      calc_bond_strength(mat_a, MaterialAt(obj, i, j + 1)))
            THEN << <<<<i, j>>, <<i, j + 1>>>> >> ELSE <<>>
        up ==
            IF /\ hasUp
               /\ MaterialAt(obj, i + 1, j) # "Luft"
               /\ ForceExceeds(impact_force, dampening, i,
                      calc_bond_strength(mat_a, MaterialAt(obj, i + 1, j)))
            THEN << <<<<i, j>>, <<i + 1, j>>>> >> ELSE <<>>
    IN  IF mat_a = "Luft" THEN <<>>
        ELSE IF hasRight /\ MaterialAt(obj, i, j + 1) = "Luft" THEN <<>>
        ELSE right \o up

RECURSIVE FractureFrom(_, _, _, _)
FractureFrom(obj, impact_force, dampening, k) ==
    LET cells == RowMajor(obj.object_h, obj.object_w)
    IN  IF k > Len(cells) THEN <<>>
        ELSE FractureOfCell(obj, impact_force, dampening, cells[k][1], cells[k][2])
             \o FractureFrom(obj, impact_force, dampening, k + 1)

check_fracture(obj, impact_force, dampening) ==
    FractureFrom(obj, impact_force, dampening, 1)

\* Sum of the positive masses of column x of the world above row y.
RECURSIVE MassAbove(_, _, _)
MassAbove(world, x, y) ==
    IF y + 1 >= world.height THEN 0
    ELSE (IF world.grid[y + 1][x].mass > 0 THEN world.grid[y + 1][x].mass ELSE 0)
         + MassAbove(world, x, y + 1)

calc_pressure_per_column(obj, world) ==
    [j \in 0 .. obj.object_w - 1 |->
        LET top_row == obj.object_h - 1
            world_x == AsUsize(obj.position[1]) + j
            world_y == AsUsize(obj.position[2]) + top_row
        IN  IF world_x >= world.width \/ world_y >= world.height THEN 0
            ELSE MassAbove(world, world_x, world_y)]

\* A scan of column j that reports the bond to the cell below as
\* ((i, j), (i - 1, j)), the upper cell first.
RECURSIVE PressureColumnUpperFirst(_, _, _, _)
PressureColumnUpperFirst(obj, j, i, acc) ==
    IF i < 0 THEN <<>>
    ELSE IF MaterialAt(obj, i, j) = "Luft"
    THEN PressureColumnUpperFirst(obj, j, i - 1, acc)
    ELSE
      LET mat == MaterialAt(obj, i, j)
          below ==
            IF /\ i > 0
               /\ MaterialAt(obj, i - 1, j) # "Luft"
               /\ acc > calc_bond_strength(mat, MaterialAt(obj, i - 1, j))
            THEN << <<<<i, j>>, <<i - 1, j>>>> >> ELSE <<>>
          right ==
            IF /\ j + 1 < obj.object_w
               /\ MaterialAt(obj, i, j + 1) # "Luft"
               /\ acc > calc_bond_strength(mat, MaterialAt(obj, i, j + 1))
            THEN << <<<<i, j>>, <<i, j + 1>>>> >> ELSE <<>>
      IN  below \o right
          \o PressureColumnUpperFirst(obj, j, i - 1, acc + density(mat))

\* A scan of column j that tests every bond against the external pressure
\* alone, never adding a cell's own mass.
RECURSIVE PressureColumnExternalOnly(_, _, _, _)
PressureColumnExternalOnly(obj, j, i, acc) ==
    IF i < 0 THEN <<>>
    ELSE IF MaterialAt(obj, i, j) = "Luft"
    THEN PressureColumnExternalOnly(obj, j, i - 1, acc)
    ELSE
      LET mat == MaterialAt(obj, i, j)
          below ==
            IF /\ i > 0
               /\ MaterialAt(obj, i - 1, j) # "Luft"
               /\ acc > calc_bond_strength(mat, MaterialAt(obj, i - 1, j))
            THEN << <<<<i - 1, j>>, <<i, j>>>> >> ELSE <<>>
          right ==
            IF /\ j + 1 < obj.object_w
               /\ MaterialAt(obj, i, j + 1) # "Luft"
               /\ acc > calc_bond_strength(mat, MaterialAt(obj, i, j + 1))
            THEN << <<<<i, j>>, <<i, j + 1>>>> >> ELSE <<>>
      IN  below \o right \o PressureColumnExternalOnly(obj, j, i - 1, acc)

\* The bonds check_pressure_fracture pushes for column j from row i down,
\* with `acc` the pressure accumulated above row i.
RECURSIVE PressureColumn(_, _, _, _)
PressureColumn(obj, j, i, acc) ==
    IF i < 0 THEN <<>>
    ELSE IF MaterialAt(obj, i, j) = "Luft" THEN PressureColumn(obj, j, i - 1, acc)
    ELSE
      LET mat == MaterialAt(obj, i, j)
          below ==
            IF /\ i > 0
               /\ MaterialAt(obj, i - 1, j) # "Luft"
               /\ acc > calc_bond_strength(mat, MaterialAt(obj, i - 1, j))
            THEN << <<<<i - 1, j>>, <<i, j>>>> >> ELSE <<>>
          right ==
            IF /\ j + 1 < obj.object_w
               /\ MaterialAt(obj, i, j + 1) # "Luft"
               /\ acc > calc_bond_strength(mat, MaterialAt(obj, i, j + 1))
            THEN << <<<<i, j>>, <<i, j + 1>>>> >> ELSE <<>>
      IN  below \o right
          \o PressureColumn(obj, j, i - 1, acc + density(mat))

RECURSIVE PressureFrom(_, _, _)
PressureFrom(obj, external_pressure, j) ==
    IF j >= obj.object_w THEN <<>>
    ELSE PressureColumn(obj, j, obj.object_h - 1, external_pressure[j])
         \o PressureFrom(obj, external_pressure, j + 1)

check_pressure_fracture(obj, world) ==
    PressureFrom(obj, calc_pressure_per_column(obj, world), 0)

(***************************************************************************)
(* find_fragments: union-find over the cells of the object grid.           *)
(***************************************************************************)
to_index(obj, i, j) == i * obj.object_w + j

\* find with path compression; returns the root and the compressed array.
RECURSIVE find(_, _)
find(parent, x) ==
    IF parent[x] = x THEN [root |-> x, parent |-> parent]
    ELSE LET p2 == [parent EXCEPT ![x] = parent[parent[x]]]
         IN  find(p2, p2[x])

\* A union that links the two cells themselves instead of their roots.
UnionWithoutFind(parent, a, b) == [parent EXCEPT ![a] = b]

union(parent, a, b) ==
    LET fa == find(parent, a)
        fb == find(fa.parent, b)
    IN  IF fa.root # fb.root
        THEN [fb.parent EXCEPT ![fa.root] = fb.root]
        ELSE fb.parent

BondsOfCell(obj, i, j) ==
    IF MaterialAt(obj, i, j) = "Luft" THEN <<>>
    ELSE (IF j + 1 < obj.object_w /\ MaterialAt(obj, i, j + 1) # "Luft"
          THEN << <<<<i, j>>, <<i, j + 1>>>> >> ELSE <<>>)
         \o
         (IF i + 1 < obj.object_h /\ MaterialAt(obj, i + 1, j) # "Luft"
          THEN << <<<<i, j>>, <<i + 1, j>>>> >> ELSE <<>>)

RECURSIVE AllBondsFrom(_, _)
AllBondsFrom(obj, k) ==
    LET cells == RowMajor(obj.object_h, obj.object_w)
    IN  IF k > Len(cells) THEN <<>>
        ELSE BondsOfCell(obj, cells[k][1], cells[k][2]) \o AllBondsFrom(obj, k + 1)

all_bonds(obj) == AllBondsFrom(obj, 1)

Contains(seq, e) == \E k \in 1 .. Len(seq) : seq[k] = e

\* The loop that unites the two ends of every bond that is not broken.
RECURSIVE UniteBonds(_, _, _, _, _)
UniteBonds(obj, bonds, broken_bonds, parent, k) ==
    IF Evaluated(parent) /\ k > Len(bonds) THEN parent
    ELSE IF ~Contains(broken_bonds, bonds[k])
    THEN UniteBonds(obj, bonds, broken_bonds,
             union(parent, to_index(obj, bonds[k][1][1], bonds[k][1][2]),
                           to_index(obj, bonds[k][2][1], bonds[k][2][2])),
             k + 1)
    ELSE UniteBonds(obj, bonds, broken_bonds, parent, k + 1)

\* The loop that files every non-air cell under its root: fragments_map as a
\* function from every index to the cells (in push order) filed under it.
RECURSIVE CollectCells(_, _, _, _)
CollectCells(obj, parent, map, k) ==
    LET cells == RowMajor(obj.object_h, obj.object_w)
    IN  IF Evaluated(parent) /\ Evaluated(map) /\ k > Len(cells) THEN map
        ELSE IF MaterialAt(obj, cells[k][1], cells[k][2]) = "Luft"
        THEN CollectCells(obj, parent, map, k + 1)
        ELSE LET f == find(parent, to_index(obj, cells[k][1], cells[k][2]))
             IN  CollectCells(obj, f.parent,
                              [map EXCEPT ![f.root] = Append(@, cells[k])], k + 1)

\* The values of fragments_map: the set of fragments, each the list of its
\* cells.  The order of the returned Vec is that of HashMap::into_values.
find_fragments(obj, broken_bonds) ==
    LET total == obj.object_h * obj.object_w
        parent0 == [x \in 0 .. total - 1 |-> x]
        parent1 == UniteBonds(obj, all_bonds(obj), broken_bonds, parent0, 1)
        map == CollectCells(obj, parent1, [x \in 0 .. total - 1 |-> <<>>], 1)
    IN  {map[x] : x \in {x \in 0 .. total - 1 : map[x] # <<>>}}

\* Every order in which HashMap::into_values can hand out the fragments.
RECURSIVE Orders(_)
Orders(S) ==
    IF S = {} THEN {<<>>}
    ELSE UNION {{<<x>> \o rest : rest \in Orders(S \ {x})} : x \in S}

\* An update_object_velocity that probes the cell under the anchor only,
\* not the whole bottom edge.
UpdateObjectVelocityAnchorOnly(obj, gravity, world) ==
    LET next_y == obj.position[2] + obj.velocity[2] + gravity[2]
        check_y == IF next_y < 0 THEN 0 ELSE next_y
        probes == << give_occupation_on_position(world,
                         AsUsize(obj.position[1]), AsUsize(check_y)) >>
        collisions == SelectSeq(probes, LAMBDA r : r # NoRef)
        velocity_before == obj.velocity[2]
        stopped == [obj EXCEPT !.velocity[2] = 0]
        broken_bonds == check_fracture(stopped,
                            calc_impact_force(stopped, velocity_before),
                            calc_dampening_factor(collisions))
    IN  IF collisions # <<>>
        THEN IF velocity_before # 0 /\ broken_bonds # <<>>
             THEN [obj |-> stopped, some |-> TRUE,
                   fragments |-> find_fragments(stopped, broken_bonds)]
             ELSE [obj |-> stopped, some |-> FALSE, fragments |-> {}]
        ELSE IF next_y < 0
        THEN [obj |-> [obj EXCEPT !.velocity[2] = -obj.position[2]],
              some |-> FALSE, fragments |-> {}]
        ELSE [obj |-> [obj EXCEPT !.velocity[2] = obj.velocity[2] + gravity[2]],
              some |-> FALSE, fragments |-> {}]

\* update_object_velocity: the object afterwards and the returned value,
\* `some` telling Some from None and `fragments` the set find_fragments found.
update_object_velocity(obj, gravity, world) ==
    LET next_y == obj.position[2] + obj.velocity[2] + gravity[2]
        check_y == IF next_y < 0 THEN 0 ELSE next_y
        probes == [j \in 1 .. obj.object_w |->
                     give_occupation_on_position(world,
                         AsUsize(obj.position[1] + AsF32(j - 1)), AsUsize(check_y))]
        collisions == SelectSeq(probes, LAMBDA r : r # NoRef)
        velocity_before == obj.velocity[2]
        stopped == [obj EXCEPT !.velocity[2] = 0]
        broken_bonds == check_fracture(stopped,
                            calc_impact_force(stopped, velocity_before),
                            calc_dampening_factor(collisions))
    IN  IF collisions # <<>>
        THEN IF velocity_before # 0 /\ broken_bonds # <<>>
             THEN [obj |-> stopped, some |-> TRUE,
                   fragments |-> find_fragments(stopped, broken_bonds)]
             ELSE [obj |-> stopped, some |-> FALSE, fragments |-> {}]
        ELSE IF next_y < 0
        THEN [obj |-> [obj EXCEPT !.velocity[2] = -obj.position[2]],
              some |-> FALSE, fragments |-> {}]
        ELSE [obj |-> [obj EXCEPT !.velocity[2] = obj.velocity[2] + gravity[2]],
              some |-> FALSE, fragments |-> {}]


(***************************************************************************)
(* State.                                                                  *)
(*   world, particles, objects, gravity                                    *)
(*                               the Simulation resource                   *)
(*   events                      the FragmentEvents resource               *)
(*   particle_counter, object_counter, selected                            *)
(*                               ParticleCounter, ObjectCounter and        *)
(*                               SelectedMaterial                          *)
(*   calls         the Object methods the latest system run invoked, as    *)
(*                 <<method, object index>>                                *)
(*   clear_count   per object, how often handle_fragments has cleared it   *)
(*                 from the world and materialized its fragments           *)
(*   handled       the object indices of the events the latest             *)
(*                 handle_fragments drained, in order                      *)
(*   last          the latest library call of the call-level               *)
(*                 specifications below, with what it returned             *)
(***************************************************************************)
VARIABLES world, particles, objects, events, gravity, particle_counter,
          object_counter, selected, calls, clear_count, handled, last

vars == <<world, particles, objects, events, gravity, particle_counter,
          object_counter, selected, calls, clear_count, handled, last>>

\* gravity: [0.0, -1.0]
Gravity == <<0, -PosUnit>>

\* The mass setup gives every static cell: 1000.0
StaticMass == 1000 * MassUnit

StaticCell == [occ |-> Static, mass |-> StaticMass, pressure |-> 0]

\* The world after setup: the floor in row 0 and the static block on it,
\* which starts KlotzW / 2 columns left of the middle.
SetupWorld(h, w) ==
    LET w0 == World_new(h, w)
        klotz_x == w \div 2 - KlotzW \div 2
    IN  [w0 EXCEPT !.grid =
            [y \in 0 .. h - 1 |-> [x \in 0 .. w - 1 |->
                IF \/ y = 0
                   \/ /\ y >= 1 /\ y <= KlotzH
                      /\ x >= klotz_x /\ x < klotz_x + KlotzW
                THEN StaticCell ELSE EmptyCell]]]

NoCall == [op |-> "none"]

Init ==
    /\ world = SetupWorld(GridH, GridW)
    /\ particles = <<>>
    /\ objects = <<>>
    /\ events = <<>>
    /\ gravity = Gravity
    /\ particle_counter = 0
    /\ object_counter = 0
    /\ selected = "Sand"
    /\ calls = {}
    /\ clear_count = <<>>
    /\ handled = <<>>
    /\ last = NoCall

\* The materials the keys 1 .. 5 select.
KeyMaterial == {"Stein", "Wasser"}

\* change_material: a key press selects a material.
ChangeMaterial(m) ==
    /\ events = <<>>
    /\ m # selected
    /\ selected' = m
    /\ calls' = {}
    /\ UNCHANGED <<world, particles, objects, events, particle_counter,
                   object_counter, clear_count, handled, last, gravity>>

\* The columns spawn_particles draws from around the middle of the grid.
SpawnOffsets == {-1, 0, 1}

\* spawn_particles, when the spawn timer has just finished; cap bounds the
\* number of particles spawned.
SpawnParticleUpTo(d, cap) ==
    LET spawn_x == world.width \div 2 + d
        spawn_y == world.height - 2
        idx == Len(particles)
        particle == Particle_new(particle_counter + 1,
                        <<AsF32(spawn_x), AsF32(spawn_y)>>, <<0, 0>>,
                        selected, Free(idx))
    IN  /\ events = <<>>
        /\ particle_counter < cap
        /\ give_occupation_on_position(world, spawn_x, spawn_y) = NoRef
        /\ particle_counter' = particle_counter + 1
        /\ world' = update_mass_on_position(
                        update_occupation_on_position(world, particle.position,
                                                      particle.particle_ref),
                        particle.position, mass(particle))
        /\ particles' = Append(particles, particle)
        /\ calls' = {}
        /\ UNCHANGED <<objects, events, object_counter, selected, clear_count,
                       handled, last, gravity>>

SpawnParticle(d) == SpawnParticleUpTo(d, MaxSpawnParticles)

\* The occupation check of spawn_object over the block's cells.
BlockFree(grid_x, grid_y, block_size) ==
    \A di \in 0 .. block_size - 1 : \A dj \in 0 .. block_size - 1 :
        give_occupation_on_position(world, grid_x + dj, grid_y + di) = NoRef

\* spawn_object: a left click at grid cell (grid_x, grid_y); with shift a
\* 4 x 4 quadrant block, else a block of the selected material.
SpawnObjectUpTo(grid_x, grid_y, shift_held, cap) ==
    LET block_size == IF shift_held THEN 4 ELSE BlockSize
        obj_id == object_counter + 1
        obj_idx == Len(objects)
        pos == <<AsF32(grid_x), AsF32(grid_y)>>
        object == IF shift_held
                  THEN new_quadrant(obj_id, obj_idx, pos, <<0, 0>>)
                  ELSE Object_new(obj_id, obj_idx, pos, <<0, 0>>, selected,
                                  BlockSize, BlockSize)
    IN  /\ events = <<>>
        /\ object_counter < cap
        /\ ~(\/ grid_x < 0 \/ grid_x >= world.width - (block_size - 1)
             \/ grid_y < 0 \/ grid_y >= world.height - (block_size - 1))
        /\ BlockFree(grid_x, grid_y, block_size)
        /\ object_counter' = obj_id
        /\ world' = WriteElements(get_object_elements(object), world, 1, TRUE)
        /\ objects' = Append(objects, object)
        /\ clear_count' = Append(clear_count, 0)
        /\ calls' = {}
        /\ UNCHANGED <<particles, events, particle_counter, selected, handled,
                       last, gravity>>


SpawnObject(grid_x, grid_y, shift_held) ==
    SpawnObjectUpTo(grid_x, grid_y, shift_held, MaxSpawnObjects)

(***************************************************************************)
(* run_simulation                                                          *)
(***************************************************************************)
\* for p in particles { p.update_velocity(gravity, world); p.update_position(world) }
RECURSIVE MoveParticles(_, _, _)
MoveParticles(w, ps, k) ==
    IF Evaluated(w) /\ Evaluated(ps) /\ k > Len(ps) THEN [world |-> w, particles |-> ps]
    ELSE LET r == update_position(update_velocity(ps[k], gravity, w), w)
         IN  MoveParticles(r.world, [ps EXCEPT ![k] = r.p], k + 1)

\* for p in particles { p.resolve_pressure(world) }: every outcome of the
\* random choices.
RECURSIVE ResolveParticles(_, _, _)
ResolveParticles(w, ps, k) ==
    IF Evaluated(w) /\ Evaluated(ps) /\ k > Len(ps) THEN {[world |-> w, particles |-> ps]}
    ELSE UNION {ResolveParticles(r.world, [ps EXCEPT ![k] = r.p], k + 1) :
                    r \in resolve_pressure(ps[k], w)}

\* for p in particles { p.fall_down(world) }
RECURSIVE FallParticles(_, _, _)
FallParticles(w, ps, k) ==
    IF Evaluated(w) /\ Evaluated(ps) /\ k > Len(ps) THEN [world |-> w, particles |-> ps]
    ELSE LET r == fall_down(ps[k], w)
         IN  FallParticles(r.world, [ps EXCEPT ![k] = r.p], k + 1)

\* Object loops without the `continue` for destroyed objects.
SkipsNothing(obj) == FALSE

\* `if obj.is_destroyed { continue; }` of both object loops.
SkipsObject(obj) == obj.is_destroyed

\* The loop over the objects that updates velocity and position; st holds
\* the world, the objects, the events pushed (each with the set of its
\* fragments) and the calls made so far.
RECURSIVE MoveObjects(_, _)
MoveObjects(st, k) ==
    IF Evaluated(st) /\ k > Len(st.objects) THEN st
    ELSE IF SkipsObject(st.objects[k]) THEN MoveObjects(st, k + 1)
    ELSE
      LET v == update_object_velocity(st.objects[k], gravity, st.world)
          c1 == st.calls \cup {<<"update_object_velocity", k - 1>>}
      IN  IF v.some
          THEN MoveObjects(
                   [st EXCEPT !.objects[k] = v.obj,
                              !.events = Append(@, [object_idx |-> k - 1,
                                                    fragments |-> v.fragments]),
                              !.calls = c1],
                   k + 1)
          ELSE IF ~v.obj.is_destroyed
          THEN LET m == update_object_position(v.obj, st.world)
               IN  MoveObjects(
                       [st EXCEPT !.objects[k] = m.obj,
                                  !.world = m.world,
                                  !.calls = c1 \cup
                                     {<<"update_object_position", k - 1>>}],
                       k + 1)
          ELSE MoveObjects([st EXCEPT !.objects[k] = v.obj, !.calls = c1], k + 1)

\* The loop that checks the objects at rest for pressure fracture.
RECURSIVE PressObjects(_, _)
PressObjects(st, k) ==
    IF Evaluated(st) /\ k > Len(st.objects) THEN st
    ELSE IF SkipsObject(st.objects[k]) THEN PressObjects(st, k + 1)
    ELSE IF get_object_velocity(st.objects[k])[2] # 0 THEN PressObjects(st, k + 1)
    ELSE
      LET broken_bonds == check_pressure_fracture(st.objects[k], st.world)
          fragments == find_fragments(st.objects[k], broken_bonds)
          c1 == st.calls \cup {<<"check_pressure_fracture", k - 1>>}
      IN  IF broken_bonds # <<>> /\ Cardinality(fragments) > 1
          THEN PressObjects(
                   [st EXCEPT !.events = Append(@, [object_idx |-> k - 1,
                                                    fragments |-> fragments]),
                              !.calls = c1],
                   k + 1)
          ELSE PressObjects([st EXCEPT !.calls = c1], k + 1)

\* Every way the events' fragment sets can be ordered into Vecs.
RECURSIVE OrderEvents(_)
OrderEvents(es) ==
    IF es = <<>> THEN {<<>>}
    ELSE {<<[object_idx |-> Head(es).object_idx, fragments |-> o]>> \o rest :
              o \in Orders(Head(es).fragments), rest \in OrderEvents(Tail(es))}

\* Every state one run of run_simulation (its timer just finished) can end in.
SimulationOutcomes ==
    LET w1 == calc_pressure_on_all_position(world)
        moved == MoveParticles(w1, particles, 1)
        resolved == ResolveParticles(moved.world, moved.particles, 1)
        Rest(r) ==
            LET fallen == FallParticles(r.world, r.particles, 1)
                st0 == [world |-> fallen.world, objects |-> objects,
                        events |-> events, calls |-> {}]
            IN  [particles |-> fallen.particles,
                 st |-> PressObjects(MoveObjects(st0, 1), 1)]
    IN  {Rest(r) : r \in resolved}

RunSimulation ==
    /\ events = <<>>
    /\ \E out \in SimulationOutcomes :
         /\ world' = out.st.world
         /\ particles' = out.particles
         /\ objects' = out.st.objects
         /\ calls' = out.st.calls
         /\ events' \in OrderEvents(out.st.events)
    /\ UNCHANGED <<particle_counter, object_counter, selected, clear_count,
                   handled, last, gravity>>

(***************************************************************************)
(* handle_fragments                                                        *)
(***************************************************************************)
\* A loop that makes one free particle of the first cell of every fragment,
\* whatever the size of the fragment.
RECURSIVE MaterializeFirstCells(_, _, _, _)
MaterializeFirstCells(st, fragment_data, old_velocity, k) ==
    IF Evaluated(st) /\ k > Len(fragment_data) THEN st
    ELSE
      LET frag_data == fragment_data[k]
          idx == Len(st.particles)
          particle == Particle_new(st.particle_counter + 1,
                          frag_data[1][1], <<0, 0>>, frag_data[1][2], Free(idx))
      IN  MaterializeFirstCells(
              [st EXCEPT
                 !.particle_counter = @ + 1,
                 !.world = update_mass_on_position(
                             update_occupation_on_position(
                                 st.world, particle.position,
                                 particle.particle_ref),
                             particle.position, mass(particle)),
                 !.particles = Append(@, particle)],
              fragment_data, old_velocity, k + 1)

\* The body of `for frag_data in fragment_data`: one fragment becomes a free
\* particle (one cell) or a new object (several cells).
RECURSIVE Materialize(_, _, _, _)
Materialize(st, fragment_data, old_velocity, k) ==
    IF Evaluated(st) /\ k > Len(fragment_data) THEN st
    ELSE
      LET frag_data == fragment_data[k]
      IN  IF Len(frag_data) = 1
          THEN LET idx == Len(st.particles)
                   particle == Particle_new(st.particle_counter + 1,
                                   frag_data[1][1], <<0, 0>>, frag_data[1][2],
                                   Free(idx))
               IN  Materialize(
                       [st EXCEPT
                          !.particle_counter = @ + 1,
                          !.world = update_mass_on_position(
                                      update_occupation_on_position(
                                          st.world, particle.position,
                                          particle.particle_ref),
                                      particle.position, mass(particle)),
                          !.particles = Append(@, particle)],
                       fragment_data, old_velocity, k + 1)
          ELSE LET new_obj_idx == Len(st.objects)
                   new_object == new_from_fragment(st.object_counter + 1,
                                     new_obj_idx, frag_data, old_velocity)
               IN  Materialize(
                       [st EXCEPT
                          !.object_counter = @ + 1,
                          !.world = WriteElements(
                                      get_object_elements(new_object),
                                      st.world, 1, FALSE),
                          !.objects = Append(@, new_object),
                          !.clear_count = Append(@, 0)],
                       fragment_data, old_velocity, k + 1)

\* An event loop that only checks the index of the event's object.
SkipsOutOfRange(objs, obj_idx) == obj_idx >= Len(objs)

\* `if obj_idx >= sim.objects.len() || sim.objects[obj_idx].is_destroyed`
SkipsEvent(objs, obj_idx) ==
    obj_idx >= Len(objs) \/ objs[obj_idx + 1].is_destroyed

\* The loop over the drained events.
RECURSIVE HandleEvents(_, _, _)
HandleEvents(st, es, k) ==
    IF Evaluated(st) /\ k > Len(es) THEN st
    ELSE
      LET obj_idx == es[k].object_idx
      IN  IF SkipsEvent(st.objects, obj_idx) THEN HandleEvents(st, es, k + 1)
          ELSE
            LET obj == st.objects[obj_idx + 1]
                old_velocity == get_object_velocity(obj)
                fragment_data ==
                    [f \in 1 .. Len(es[k].fragments) |->
                        extract_fragment_data(obj, es[k].fragments[f])]
                st1 == [st EXCEPT
                          !.world = clear_from_world(obj, st.world),
                          !.objects[obj_idx + 1].is_destroyed = TRUE,
                          !.clear_count[obj_idx + 1] = @ + 1]
            IN  HandleEvents(Materialize(st1, fragment_data, old_velocity, 1),
                             es, k + 1)

HandleFragments ==
    LET st0 == [world |-> world, particles |-> particles, objects |-> objects,
                particle_counter |-> particle_counter,
                object_counter |-> object_counter, clear_count |-> clear_count]
        st == HandleEvents(st0, events, 1)
    IN  /\ events # <<>>
        /\ world' = st.world
        /\ particles' = st.particles
        /\ objects' = st.objects
        /\ particle_counter' = st.particle_counter
        /\ object_counter' = st.object_counter
        /\ clear_count' = st.clear_count
        /\ events' = <<>>
        /\ handled' = [k \in 1 .. Len(events) |-> events[k].object_idx]
        /\ calls' = {}
        /\ UNCHANGED <<selected, last, gravity>>

Next ==
    \/ \E m \in KeyMaterial : ChangeMaterial(m)
    \/ \E d \in SpawnOffsets : SpawnParticle(d)
    \/ \E x \in 0 .. GridW - 1, y \in 0 .. GridH - 1, s \in BOOLEAN :
          SpawnObject(x, y, s)
    \/ RunSimulation
    \/ HandleFragments

Spec == Init /\ [][Next]_vars

(***************************************************************************)
(* The same systems in a taller world into which only objects are spawned  *)
(* (no key is pressed and the spawn timer never finishes).                 *)
(***************************************************************************)
InitStack ==
    /\ world = SetupWorld(StackH, StackW)
    /\ particles = <<>>
    /\ objects = <<>>
    /\ events = <<>>
    /\ gravity = Gravity
    /\ particle_counter = 0
    /\ object_counter = 0
    /\ selected = "Sand"
    /\ calls = {}
    /\ clear_count = <<>>
    /\ handled = <<>>
    /\ last = NoCall

StackSpawn(grid_x, grid_y, shift_held) ==
    SpawnObjectUpTo(grid_x, grid_y, shift_held, MaxStackObjects)

NextStack ==
    \/ \E x \in 0 .. StackW - 1, y \in 0 .. StackH - 1, s \in BOOLEAN :
          StackSpawn(x, y, s)
    \/ RunSimulation
    \/ HandleFragments

SpecStack == InitStack /\ [][NextStack]_vars


(***************************************************************************)
(* The cells the live entities claim.                                      *)
(***************************************************************************)
CellOf(pos) == <<AsUsize(pos[1]), AsUsize(pos[2])>>

\* The live entities: free particles, non-air cells of objects that are
\* not destroyed, static terrain cells; each with the cell it claims.
LiveParticles ==
    {[kind |-> "particle", a |-> k, b |-> 0, c |-> 0,
      cell |-> CellOf(particles[k].position)] : k \in 1 .. Len(particles)}

LiveObjectCells ==
    UNION {{[kind |-> "object", a |-> o, b |-> i, c |-> j,
             cell |-> CellOf(objects[o].object_grid[i][j].position)] :
               <<i, j>> \in {c \in (0 .. objects[o].object_h - 1)
                                     \X (0 .. objects[o].object_w - 1) :
                               MaterialAt(objects[o], c[1], c[2]) # "Luft"}} :
           o \in {o \in 1 .. Len(objects) : ~objects[o].is_destroyed}}

StaticCells ==
    {[kind |-> "static", a |-> 0, b |-> 0, c |-> 0, cell |-> <<x, y>>] :
        <<x, y>> \in {c \in (0 .. world.width - 1) \X (0 .. world.height - 1) :
                        SetupWorld(world.height, world.width)
                            .grid[c[2]][c[1]].occ = Static}}

LiveEntities == LiveParticles \cup LiveObjectCells \cup StaticCells

\* C1: every grid cell is claimed by at most one live entity.
OccupancyExclusive ==
    \A e1 \in LiveEntities : \A e2 \in LiveEntities :
        e1 # e2 => e1.cell # e2.cell


(***************************************************************************)
(* Library calls on one object.  The specification SpecObj constructs an   *)
(* object with one of the three constructors and a world with some mass in *)
(* its top row, and then calls find_fragments, check_fracture (followed by *)
(* find_fragments on its result, as update_object_velocity does) and       *)
(* check_pressure_fracture on it: one call on each constructed object,     *)
(* which `last` holds.                                                     *)
(***************************************************************************)
\* Largest height and width of a constructed object (new_quadrant aside).
MaxObjH == 3
MaxObjW == 2
\* The world the constructed object is placed in, at its lower left corner.
ObjWorldH == 5
ObjWorldW == 4
\* Objects with at most this many bonds get every broken-bond list.
MaxBonds == 7

\* One unit of force: 1.0 of mass times 1.0 of velocity.
ForceUnit == MassUnit * PosUnit

RECURSIVE SeqOf(_)
SeqOf(S) ==
    IF S = {} THEN <<>>
    ELSE LET x == CHOOSE x \in S : TRUE IN <<x>> \o SeqOf(S \ {x})

ToSet(seq) == {seq[k] : k \in 1 .. Len(seq)}

\* The two ways the cells of a fragment's data are given materials.
FragmentMaterial(pattern, i, j) ==
    IF pattern = "uniform" THEN "Stein"
    ELSE IF (i + j) % 2 = 0 THEN "Sand" ELSE "Wasser"

\* Fragment data <<position, material>> over a non-empty set of cells.
FragmentData(cells, pattern) ==
    [k \in 1 .. Len(SeqOf(cells)) |->
        LET c == SeqOf(cells)[k]
        IN  <<<<AsF32(c[2]), AsF32(c[1])>>, FragmentMaterial(pattern, c[1], c[2])>>]

TestObjects ==
    {Object_new(1, 0, <<0, 0>>, <<0, 0>>, m, h, w) :
        m \in MaterialTyp, h \in 1 .. MaxObjH, w \in 1 .. MaxObjW}
    \cup {new_quadrant(1, 0, <<0, 0>>, <<0, 0>>)}
    \cup {new_from_fragment(1, 0, FragmentData(cells, pattern), <<0, 0>>) :
            cells \in SUBSET ((0 .. MaxObjH - 1) \X (0 .. MaxObjW - 1)) \ {{}},
            pattern \in {"uniform", "mixed"}}

\* Masses in the top row of the world, per column (the other columns empty).
TestLoads ==
    {<<0, 0>>, <<density("Sand"), 0>>, <<0, 2 * density("Sand")>>,
     <<StaticMass, StaticMass>>}

LoadedWorld(load) ==
    [World_new(ObjWorldH, ObjWorldW) EXCEPT !.grid =
        [y \in 0 .. ObjWorldH - 1 |-> [x \in 0 .. ObjWorldW - 1 |->
            IF y = ObjWorldH - 1 /\ x < Len(load) /\ load[x + 1] > 0
            THEN [occ |-> Static, mass |-> load[x + 1], pressure |-> 0]
            ELSE EmptyCell]]]

InitObj ==
    /\ world \in {LoadedWorld(load) : load \in TestLoads}
    /\ objects \in {<<o>> : o \in TestObjects}
    /\ particles = <<>>
    /\ events = <<>>
    /\ gravity = Gravity
    /\ particle_counter = 0
    /\ object_counter = 1
    /\ selected = "Sand"
    /\ calls = {}
    /\ clear_count = <<0>>
    /\ handled = <<>>
    /\ last = NoCall

\* The broken-bond lists handed to find_fragments: every list of bonds of
\* the object (of a small object), the same with the first bond also given
\* the other way round and twice, or at most one bond.
TestBroken(obj) ==
    LET bonds == ToSet(all_bonds(obj))
        lists == IF Cardinality(bonds) <= MaxBonds
                 THEN {SeqOf(S) : S \in SUBSET bonds}
                 ELSE {<<>>} \cup {<<b>> : b \in bonds}
    IN  lists \cup {<<<<l[1][2], l[1][1]>>, l[1]>> \o l : l \in lists \ {<<>>}}

TestForces == {0, ForceUnit, 3 * ForceUnit, 21 * ForceUnit, 30 * ForceUnit,
               40 * ForceUnit, 41 * ForceUnit, 60 * ForceUnit}

\* Dampening factors as fractions: 1.0, 0.4, 0.6, 0.0, -1.0, 3.0.
TestDampenings == {<<1, 1>>, <<4, 10>>, <<6, 10>>, <<0, 1>>, <<-1, 1>>, <<3, 1>>}

CallFindFragments(broken_bonds) ==
    /\ last = NoCall
    /\ last' = [op |-> "find_fragments", force |-> 0, dampening |-> <<1, 1>>,
                external |-> <<>>, broken |-> broken_bonds,
                fragments |-> find_fragments(objects[1], broken_bonds)]
    /\ UNCHANGED <<world, particles, objects, events, particle_counter,
                   object_counter, selected, calls, clear_count, handled, gravity>>

CallCheckFracture(impact_force, dampening) ==
    LET broken_bonds == check_fracture(objects[1], impact_force, dampening)
    IN  /\ last = NoCall
        /\ last' = [op |-> "check_fracture", force |-> impact_force,
                    dampening |-> dampening, external |-> <<>>,
                    broken |-> broken_bonds,
                    fragments |-> find_fragments(objects[1], broken_bonds)]
        /\ UNCHANGED <<world, particles, objects, events, particle_counter,
                       object_counter, selected, calls, clear_count, handled, gravity>>

CallCheckPressureFracture ==
    LET broken_bonds == check_pressure_fracture(objects[1], world)
        external == calc_pressure_per_column(objects[1], world)
    IN  /\ last = NoCall
        /\ last' = [op |-> "check_pressure_fracture", force |-> 0,
                    dampening |-> <<1, 1>>,
                    external |-> [j \in 1 .. objects[1].object_w |->
                                     external[j - 1]],
                    broken |-> broken_bonds,
                    fragments |-> find_fragments(objects[1], broken_bonds)]
        /\ UNCHANGED <<world, particles, objects, events, particle_counter,
                       object_counter, selected, calls, clear_count, handled, gravity>>

\* handle_fragments' construction of an object from one fragment:
\* Object::new_from_fragment(id, idx, &extract_fragment_data(&fragment), v).
CallNewFromFragment(broken_bonds) ==
    /\ last = NoCall
    /\ \E fragment \in find_fragments(objects[1], broken_bonds) :
          last' = [op |-> "new_from_fragment", fragment |-> fragment,
                   object |-> new_from_fragment(
                                  2, 1,
                                  extract_fragment_data(objects[1], fragment),
                                  objects[1].velocity)]
    /\ UNCHANGED <<world, particles, objects, events, particle_counter,
                   object_counter, selected, calls, clear_count, handled, gravity>>

NextObj ==
    \/ \E broken_bonds \in TestBroken(objects[1]) :
          CallFindFragments(broken_bonds)
    \/ \E impact_force \in TestForces, dampening \in TestDampenings :
          CallCheckFracture(impact_force, dampening)
    \/ CallCheckPressureFracture
    \/ \E broken_bonds \in TestBroken(objects[1]) :
          CallNewFromFragment(broken_bonds)

SpecObj == InitObj /\ [][NextObj]_vars


(***************************************************************************)
(* The particle part of a tick, call by call, in the order of              *)
(* run_simulation: calc_pressure_on_all_position; for every particle       *)
(* update_velocity and update_position; for every particle                 *)
(* resolve_pressure; for every particle fall_down.  `last` holds the       *)
(* latest call: its name, the particle k it was made on and the position   *)
(* of that particle before the call (for update_velocity its velocity      *)
(* before the call as well).                                               *)
(***************************************************************************)
TickCall(op, k, before) == [op |-> op, k |-> k, before |-> before]

StepCalcPressure ==
    /\ \/ last = NoCall
       \/ last.op = "fall_down" /\ last.k = Len(particles)
    /\ world' = calc_pressure_on_all_position(world)
    /\ last' = TickCall("calc_pressure_on_all_position", 0, <<0, 0>>)
    /\ UNCHANGED <<particles, objects, events, gravity, particle_counter,
                   object_counter, selected, calls, clear_count, handled>>

StepUpdateVelocity(k) ==
    /\ \/ last.op = "calc_pressure_on_all_position" /\ k = 1
       \/ last.op = "update_position" /\ k = last.k + 1
    /\ k <= Len(particles)
    /\ particles' = [particles EXCEPT
                        ![k] = update_velocity(particles[k], gravity, world)]
    /\ last' = [op |-> "update_velocity", k |-> k,
                before |-> particles[k].position,
                velocity |-> particles[k].velocity]
    /\ UNCHANGED <<world, objects, events, gravity, particle_counter,
                   object_counter, selected, calls, clear_count, handled>>

StepUpdatePosition(k) ==
    /\ last.op = "update_velocity" /\ k = last.k
    /\ LET r == update_position(particles[k], world)
       IN  /\ particles' = [particles EXCEPT ![k] = r.p]
           /\ world' = r.world
    /\ last' = TickCall("update_position", k, particles[k].position)
    /\ UNCHANGED <<objects, events, gravity, particle_counter,
                   object_counter, selected, calls, clear_count, handled>>

StepResolvePressure(k) ==
    /\ \/ /\ last.op = "update_position"
          /\ last.k = Len(particles) /\ k = 1
       \/ last.op = "resolve_pressure" /\ k = last.k + 1
    /\ k <= Len(particles)
    /\ \E r \in resolve_pressure(particles[k], world) :
          /\ particles' = [particles EXCEPT ![k] = r.p]
          /\ world' = r.world
    /\ last' = TickCall("resolve_pressure", k, particles[k].position)
    /\ UNCHANGED <<objects, events, gravity, particle_counter,
                   object_counter, selected, calls, clear_count, handled>>

StepFallDown(k) ==
    /\ \/ /\ last.op = "resolve_pressure"
          /\ last.k = Len(particles) /\ k = 1
       \/ last.op = "fall_down" /\ k = last.k + 1
    /\ k <= Len(particles)
    /\ LET r == fall_down(particles[k], world)
       IN  /\ particles' = [particles EXCEPT ![k] = r.p]
           /\ world' = r.world
    /\ last' = TickCall("fall_down", k, particles[k].position)
    /\ UNCHANGED <<objects, events, gravity, particle_counter,
                   object_counter, selected, calls, clear_count, handled>>

\* Registers the particles k .. n in the world, as spawn_particles does.
RECURSIVE WithParticles(_, _, _)
WithParticles(w, ps, k) ==
    IF Evaluated(w) /\ k > Len(ps) THEN w
    ELSE WithParticles(
             update_mass_on_position(
                 update_occupation_on_position(w, ps[k].position,
                                               ps[k].particle_ref),
                 ps[k].position, mass(ps[k])),
             ps, k + 1)

\* The world of the specification SpecPart, and how many particles it holds.
PartW == 3
PartH == 4
MaxParticles == 2

\* A world with static cells `blocks` in its bottom row.
BlockedWorld(blocks) ==
    [World_new(PartH, PartW) EXCEPT !.grid =
        [y \in 0 .. PartH - 1 |-> [x \in 0 .. PartW - 1 |->
            IF y = 0 /\ x \in blocks THEN StaticCell ELSE EmptyCell]]]

\* One to MaxParticles particles at rest in different free cells.
TestParticles(w) ==
    LET free == {c \in (0 .. PartW - 1) \X (0 .. PartH - 1) :
                    give_occupation_on_position(w, c[1], c[2]) = NoRef}
    IN  UNION {{ps \in [1 .. n -> free \X {"Sand", "Wasser"}] :
                   \A a \in 1 .. n : \A b \in 1 .. n :
                       a # b => ps[a][1] # ps[b][1]} : n \in 1 .. MaxParticles}

InitPart ==
    /\ \E blocks \in SUBSET (0 .. PartW - 1) :
         \E ps \in TestParticles(BlockedWorld(blocks)) :
            /\ particles = [k \in 1 .. Len(ps) |->
                              Particle_new(k, <<AsF32(ps[k][1][1]),
                                                AsF32(ps[k][1][2])>>,
                                           <<0, 0>>, ps[k][2], Free(k - 1))]
            /\ world = WithParticles(BlockedWorld(blocks), particles, 1)
    /\ objects = <<>>
    /\ events = <<>>
    /\ gravity = Gravity
    /\ particle_counter = Len(particles)
    /\ object_counter = 0
    /\ selected = "Sand"
    /\ calls = {}
    /\ clear_count = <<>>
    /\ handled = <<>>
    /\ last = NoCall

NextPart ==
    \/ StepCalcPressure
    \/ \E k \in 1 .. MaxParticles : StepUpdateVelocity(k)
    \/ \E k \in 1 .. MaxParticles : StepUpdatePosition(k)
    \/ \E k \in 1 .. MaxParticles : StepResolvePressure(k)
    \/ \E k \in 1 .. MaxParticles : StepFallDown(k)

SpecPart == InitPart /\ [][NextPart]_vars

(***************************************************************************)
(* A single particle in an otherwise empty world under the gravity of      *)
(* src/bin/terminal.rs (specification SpecFall).                           *)
(***************************************************************************)
\* The world: 10 wide, 20 high.
FallW == 10
FallH == 20

\* gravity: [0.0, -0.5]
FallGravity == <<0, -1>>

\* The particle is numbered by the cell it starts in.
StartId(x, y) == y * FallW + x + 1

InitFall ==
    /\ \E x \in 0 .. FallW - 1 : \E y \in 0 .. FallH - 1 :
          particles = <<Particle_new(StartId(x, y), <<AsF32(x), AsF32(y)>>,
                                     <<0, 0>>, "Sand", Free(0))>>
    /\ world = WithParticles(World_new(FallH, FallW), particles, 1)
    /\ objects = <<>>
    /\ events = <<>>
    /\ gravity = FallGravity
    /\ particle_counter = 1
    /\ object_counter = 0
    /\ selected = "Sand"
    /\ calls = {}
    /\ clear_count = <<>>
    /\ handled = <<>>
    /\ last = NoCall

NextFall ==
    \/ StepCalcPressure
    \/ StepUpdateVelocity(1)
    \/ StepUpdatePosition(1)
    \/ StepResolvePressure(1)
    \/ StepFallDown(1)

\* The tick sequence is repeated for ever.
SpecFall == InitFall /\ [][NextFall]_vars /\ WF_vars(NextFall)

(***************************************************************************)
(* Properties of the particle moves (specifications SpecPart, SpecFall).   *)
(***************************************************************************)
LastMoved ==
    /\ last.op \in {"update_position", "resolve_pressure", "fall_down"}
    /\ CellOf(last.before) # CellOf(particles[last.k].position)

\* C6: after update_position, resolve_pressure or fall_down has changed the
\* cell of a particle, the cell it was in reads unoccupied with mass 0 and
\* the cell it is in reads occupied by its reference with its mass.
MoveClearsAndWrites ==
    LastMoved =>
        LET p == particles[last.k]
            old == CellOf(last.before)
            new == CellOf(p.position)
        IN  /\ give_occupation_on_position(world, old[1], old[2]) = NoRef
            /\ world.grid[old[2]][old[1]].mass = 0
            /\ give_occupation_on_position(world, new[1], new[2])
                   = p.particle_ref
            /\ world.grid[new[2]][new[1]].mass = mass(p)

\* resolve_pressure has just relocated a particle.
RelocatedWitness ==
    LastMoved /\ last.op = "resolve_pressure"

AtRest ==
    /\ particles[1].position = <<AsF32(5), AsF32(0)>>
    /\ particles[1].velocity[2] = 0

\* C7: the sand particle that starts at (5, 10) with velocity 0 in the empty
\* world eventually is at (5, 0) with vertical velocity 0, and stays so.
FallsToRest ==
    (/\ particles[1].position = <<AsF32(5), AsF32(10)>>
     /\ particles[1].velocity = <<0, 0>>
     /\ last = NoCall)
        => <>[]AtRest

\* The particle that started at (5, 10) is at rest at (5, 0) at the end of
\* a tick.
RestWitness ==
    /\ particles[1].id = StartId(5, 10)
    /\ AtRest
    /\ last.op = "fall_down"

(***************************************************************************)
(* Properties of the fracture functions (specification SpecObj).           *)
(***************************************************************************)
NonAirCells(obj) ==
    {c \in (0 .. obj.object_h - 1) \X (0 .. obj.object_w - 1) :
        MaterialAt(obj, c[1], c[2]) # "Luft"}

\* The right and up adjacencies between non-air cells, as <<cell, neighbour>>.
Adjacent(obj) ==
    {b \in NonAirCells(obj) \X NonAirCells(obj) :
        \/ b[2] = <<b[1][1], b[1][2] + 1>>
        \/ b[2] = <<b[1][1] + 1, b[1][2]>>}

\* The cells a path over `edges` (in either direction) joins to those of S.
RECURSIVE ReachFrom(_, _)
ReachFrom(S, edges) ==
    LET more == S \cup {e[2] : e \in {e \in edges : e[1] \in S}}
                  \cup {e[1] : e \in {e \in edges : e[2] \in S}}
    IN  IF more = S THEN S ELSE ReachFrom(more, edges)

\* Sum of the material densities over the fragment data of all fragments.
RECURSIVE FragmentsMass(_, _)
FragmentsMass(obj, fragments) ==
    IF fragments = {} THEN 0
    ELSE LET f == CHOOSE f \in fragments : TRUE
             data == extract_fragment_data(obj, f)
         IN  SumSeq([k \in 1 .. Len(data) |-> density(data[k][2])])
             + FragmentsMass(obj, fragments \ {f})

\* C2: the densities over the fragment data of all fragments returned by
\* find_fragments sum up to the object's total mass (get_object_mass).
FragmentMassConserved ==
    last.op = "find_fragments" =>
        FragmentsMass(objects[1], last.fragments) = get_object_mass(objects[1])

\* C3: find_fragments returns exactly the connected components of the graph
\* of non-air cells and unbroken right/up bonds: the fragments are
\* non-empty, repeat no cell, are pairwise disjoint, cover exactly the
\* non-air cells, and the fragment of a cell holds exactly the cells that
\* unbroken bonds join to it.
FragmentsAreComponents ==
    last.op \in {"find_fragments", "check_fracture", "check_pressure_fracture"} =>
        LET obj == objects[1]
            edges == Adjacent(obj) \ ToSet(last.broken)
            sets == {ToSet(f) : f \in last.fragments}
        IN  /\ \A f \in last.fragments :
                  f # <<>> /\ Cardinality(ToSet(f)) = Len(f)
            /\ Cardinality(sets) = Cardinality(last.fragments)
            /\ \A F \in sets : \A G \in sets : F # G => F \cap G = {}
            /\ UNION sets = NonAirCells(obj)
            /\ \A F \in sets : \A c \in F : F = ReachFrom({c}, edges)

\* find_fragments has split an object that has an air cell into several
\* fragments, one of them of several cells.
FragmentsSplitWitness ==
    /\ last.op = "find_fragments"
    /\ last.broken # <<>>
    /\ Cardinality(last.fragments) >= 2
    /\ \E f \in last.fragments : Len(f) >= 2
    /\ NonAirCells(objects[1]) #
           (0 .. objects[1].object_h - 1) \X (0 .. objects[1].object_w - 1)

\* Summed density of the non-air cells of column j above row i.
OwnMassAbove(obj, i, j) ==
    SumSeq([k \in 1 .. obj.object_h - 1 - i |->
               IF MaterialAt(obj, i + k, j) # "Luft"
               THEN density(MaterialAt(obj, i + k, j)) ELSE 0])

BondStrengthOf(obj, b) ==
    calc_bond_strength(MaterialAt(obj, b[1][1], b[1][2]),
                       MaterialAt(obj, b[2][1], b[2][2]))

IsVertical(b) == b[2][1] = b[1][1] + 1

NoExternalPressure ==
    /\ last.op = "check_pressure_fracture"
    /\ \A j \in 1 .. Len(last.external) : last.external[j] = 0

NoFractureWithoutForce ==
    (last.op = "check_fracture" /\ last.force = 0) => last.broken = <<>>

\* check_fracture was called with force 0 and a dampening factor other than
\* 1 on an object with a bond of strength 0 between different materials.
ZeroForceWitness ==
    /\ last.op = "check_fracture"
    /\ last.force = 0
    /\ last.dampening # <<1, 1>>
    /\ \E b \in Adjacent(objects[1]) :
          /\ BondStrengthOf(objects[1], b) = 0
          /\ MaterialAt(objects[1], b[1][1], b[1][2])
                 # MaterialAt(objects[1], b[2][1], b[2][2])

IsQuadrant == objects[1] = new_quadrant(1, 0, <<0, 0>>, <<0, 0>>)

IsCrossBond(obj, b) ==
    MaterialAt(obj, b[1][1], b[1][2]) # MaterialAt(obj, b[2][1], b[2][2])

\* force * dampening > strength
DampedForceExceeds(force, dampening, strength) ==
    force * dampening[1] > strength * PosUnit * dampening[2]

\* check_fracture was called on the quadrant object with a damped force
\* above every cross-material bond strength and above no same-material one.
SeamImpact ==
    /\ last.op = "check_fracture"
    /\ IsQuadrant
    /\ \A b \in Adjacent(objects[1]) :
          DampedForceExceeds(last.force, last.dampening,
                             BondStrengthOf(objects[1], b))
              <=> IsCrossBond(objects[1], b)

\* C10 as the specification states it: such an impact leaves exactly two
\* fragments, each of cells of one material.
SeamImpactTwoFragments ==
    SeamImpact =>
        /\ Cardinality(last.fragments) = 2
        /\ \A f \in last.fragments : \A k \in 1 .. Len(f) :
              MaterialAt(objects[1], f[k][1], f[k][2])
                  = MaterialAt(objects[1], f[1][1], f[1][2])

\* C10: such an impact breaks the one cross-material bond of row 0 only,
\* and find_fragments returns one fragment of all sixteen cells.
SeamImpactOneFragment ==
    SeamImpact =>
        /\ last.broken = << <<<<0, 1>>, <<0, 2>>>> >>
        /\ Cardinality(last.fragments) = 1
        /\ \A f \in last.fragments : ToSet(f) = (0 .. 3) \X (0 .. 3)

\* The quadrant object after such an impact damped by a free particle.
SeamImpactWitness ==
    SeamImpact /\ last.dampening = <<4, 10>>


(***************************************************************************)
(* Properties of the object lifecycle (frame systems).                     *)
(***************************************************************************)
\* C4: an object that is destroyed stays destroyed, and a run of
\* run_simulation invokes none of update_object_velocity,
\* update_object_position and check_pressure_fracture on it.
DestroyedIsFinal ==
    [][\A o \in 1 .. Len(objects) :
          objects[o].is_destroyed =>
              /\ objects'[o].is_destroyed
              /\ \A c \in calls' : c[2] # o - 1]_vars

\* run_simulation has just run on the live objects while another object
\* was destroyed.
DestroyedSkippedWitness ==
    /\ \E o \in 1 .. Len(objects) : objects[o].is_destroyed
    /\ calls # {}

\* C5: every object has been cleared from the world and materialized at
\* most once, and exactly once if and only if it is destroyed.
ClearedExactlyOnce ==
    \A o \in 1 .. Len(objects) :
        /\ clear_count[o] <= 1
        /\ (clear_count[o] = 1 <=> objects[o].is_destroyed)

\* handle_fragments has just drained two events of the same object and
\* cleared that object once.
TwoEventsWitness ==
    \E k \in 1 .. Len(handled) : \E m \in 1 .. Len(handled) :
        /\ k # m
        /\ handled[k] = handled[m]
        /\ clear_count[handled[k] + 1] = 1


(***************************************************************************)
(* Objects that fall onto the ground (specification SpecLand): one object  *)
(* built by Object::new is registered in a world with a static floor, and  *)
(* run_simulation and handle_fragments run on it.                          *)
(***************************************************************************)
\* The world: LandW wide, LandH high.
LandW == 3
LandH == 6
\* Largest height and width of an object of a material with strong bonds.
LandSize == 3

\* The floor of setup alone: static cells in row 0.
GroundWorld(h, w) ==
    [World_new(h, w) EXCEPT !.grid =
        [y \in 0 .. h - 1 |-> [x \in 0 .. w - 1 |->
            IF y = 0 THEN StaticCell ELSE EmptyCell]]]

\* The object is numbered by the cell its anchor starts in.
LandId(x, y) == y * LandW + x + 1

\* Height x width of the objects built of material m.
LandSizes(m) ==
    IF m \in {"Sand", "Wasser", "Luft"}
    THEN (1 .. BlockSize) \X (1 .. BlockSize)
    ELSE (1 .. LandSize) \X (1 .. LandSize)

InitLand ==
    /\ \E w0 \in {GroundWorld(LandH, LandW), SetupWorld(LandH, LandW)} :
       \E m \in MaterialTyp \ {"Luft"} : \E hw \in LandSizes(m) :
       \E x \in 0 .. LandW - hw[2] : \E y \in 1 .. LandH - hw[1] :
          LET object == Object_new(LandId(x, y), 0, <<AsF32(x), AsF32(y)>>,
                                   <<0, 0>>, m, hw[1], hw[2])
          IN  /\ \A di \in 0 .. hw[1] - 1 : \A dj \in 0 .. hw[2] - 1 :
                    give_occupation_on_position(w0, x + dj, y + di) = NoRef
              /\ objects = <<object>>
              /\ world = WriteElements(get_object_elements(object), w0, 1, TRUE)
    /\ particles = <<>>
    /\ events = <<>>
    /\ gravity = Gravity
    /\ particle_counter = 0
    /\ object_counter = 1
    /\ selected = "Sand"
    /\ calls = {}
    /\ clear_count = <<0>>
    /\ handled = <<>>
    /\ last = NoCall

NextLand ==
    \/ RunSimulation
    \/ HandleFragments

SpecLand == InitLand /\ [][NextLand]_vars

(***************************************************************************)
(* Properties of the landing of an object (specification SpecLand).        *)
(***************************************************************************)
\* The references update_object_velocity finds under the bottom edge.
BottomCollisions(obj) ==
    LET next_y == obj.position[2] + obj.velocity[2] + gravity[2]
        check_y == IF next_y < 0 THEN 0 ELSE next_y
        probes == [j \in 1 .. obj.object_w |->
                     give_occupation_on_position(world,
                         AsUsize(obj.position[1] + AsF32(j - 1)), AsUsize(check_y))]
    IN  SelectSeq(probes, LAMBDA r : r # NoRef)

IsStoneBlock(obj) ==
    /\ obj.object_h = 3 /\ obj.object_w = 3
    /\ \A i \in 0 .. 2 : \A j \in 0 .. 2 : MaterialAt(obj, i, j) = "Stein"

\* A live 3 x 3 stone object is about to hit static cells with all of its
\* bottom edge at a velocity of magnitude 1.
StoneLanding ==
    /\ Len(objects) >= 1 /\ events = <<>>
    /\ IsStoneBlock(objects[1]) /\ ~objects[1].is_destroyed
    /\ Abs(objects[1].velocity[2]) = PosUnit
    /\ Len(BottomCollisions(objects[1])) = 3
    /\ \A k \in 1 .. 3 : BottomCollisions(objects[1])[k] = Static

\* C11: when a 3 x 3 stone object is about to hit flat static ground at a
\* velocity of magnitude 1, check_fracture finds no broken bond for that
\* impact and update_object_velocity returns None; and no 3 x 3 stone object
\* is ever destroyed or named by a fragment event.
StoneLandingUnbroken ==
    /\ StoneLanding =>
          LET obj == objects[1]
              stopped == [obj EXCEPT !.velocity[2] = 0]
              v == update_object_velocity(obj, gravity, world)
          IN  /\ check_fracture(stopped,
                     calc_impact_force(stopped, obj.velocity[2]),
                     calc_dampening_factor(BottomCollisions(obj))) = <<>>
              /\ ~v.some
              /\ v.obj = stopped
    /\ \A o \in 1 .. Len(objects) :
          IsStoneBlock(objects[o]) =>
              /\ ~objects[o].is_destroyed
              /\ \A e \in 1 .. Len(events) : events[e].object_idx # o - 1

\* The stone block that started two rows up, its bottom edge one free row
\* above the ground, has fallen one cell and come to rest on the ground.
StoneLandedWitness ==
    /\ Len(objects) = 1 /\ IsStoneBlock(objects[1])
    /\ objects[1].object_id = LandId(0, 2)
    /\ objects[1].position = <<0, AsF32(1)>>
    /\ objects[1].velocity = <<0, 0>>
    /\ <<"update_object_velocity", 0>> \in calls
    /\ ~objects[1].is_destroyed
    /\ events = <<>>


(***************************************************************************)
(* A column of particles stacked from row 0 up in an otherwise empty       *)
(* world (specification SpecPile), ticked call by call.                    *)
(***************************************************************************)
\* The world: PileW wide, PileH high; at most PileMax particles in the stack.
PileW == 7
PileH == 4
PileMax == 3

\* The particle is numbered by the cell it starts in.
PileId(x, y) == y * PileW + x + 1

InitPile ==
    /\ \E x \in 0 .. PileW - 1 : \E n \in 1 .. PileMax :
       \E ms \in [1 .. n -> {"Sand", "Wasser"}] :
          particles = [k \in 1 .. n |->
                          Particle_new(PileId(x, k - 1),
                                       <<AsF32(x), AsF32(k - 1)>>, <<0, 0>>,
                                       ms[k], Free(k - 1))]
    /\ world = WithParticles(World_new(PileH, PileW), particles, 1)
    /\ objects = <<>>
    /\ events = <<>>
    /\ gravity = Gravity
    /\ particle_counter = Len(particles)
    /\ object_counter = 0
    /\ selected = "Sand"
    /\ calls = {}
    /\ clear_count = <<>>
    /\ handled = <<>>
    /\ last = NoCall

NextPile ==
    \/ StepCalcPressure
    \/ \E k \in 1 .. PileMax : StepUpdateVelocity(k)
    \/ \E k \in 1 .. PileMax : StepUpdatePosition(k)
    \/ \E k \in 1 .. PileMax : StepResolvePressure(k)
    \/ \E k \in 1 .. PileMax : StepFallDown(k)

SpecPile == InitPile /\ [][NextPile]_vars

(***************************************************************************)
(* Properties of the pressure (specifications SpecPile, SpecPart).         *)
(***************************************************************************)
PressureAt(x, y) == give_pressure_on_position(world, x, y)

JustRecomputed == last.op = "calc_pressure_on_all_position"

\* Three sand particles, started at (5,0), (5,1), (5,2), of which the one
\* started at (5,2) is still there; nothing else is in the world.
StackedSand ==
    /\ Len(particles) = 3
    /\ \A k \in 1 .. 3 :
          /\ particles[k].id = PileId(5, k - 1)
          /\ particles[k].material = "Sand"
    /\ particles[3].position = <<AsF32(5), AsF32(2)>>

StackIntact ==
    /\ StackedSand
    /\ \A k \in 1 .. 3 : particles[k].position = <<AsF32(5), AsF32(k - 1)>>

\* C12: immediately after calc_pressure_on_all_position the pressure of
\* every cell is at least the pressure of the cell above it, and in the
\* stack of three sand particles (5,2) reads less than (5,1) and (5,1) less
\* than (5,0).
PressureGrowsDownwards ==
    JustRecomputed =>
        /\ \A x \in 0 .. world.width - 1 : \A y \in 0 .. world.height - 2 :
              PressureAt(x, y) >= PressureAt(x, y + 1)
        /\ StackIntact =>
              /\ PressureAt(5, 2) < PressureAt(5, 1)
              /\ PressureAt(5, 1) < PressureAt(5, 0)
              /\ PressureAt(5, 2) > 0

\* The pressure of the intact stack of three sand particles has been
\* recomputed.
StackRecomputedWitness ==
    JustRecomputed /\ StackIntact

\* The masses of column x from row y up to the top row.
MassesFrom(x, y) ==
    [k \in 1 .. world.height - y |-> world.grid[y + k - 1][x].mass]

\* C13: immediately after calc_pressure_on_all_position the pressure of
\* every cell is the sum of the masses of the cells of its column in its
\* row and in the rows above.
PressureIsMassAtOrAbove ==
    JustRecomputed =>
        \A x \in 0 .. world.width - 1 : \A y \in 0 .. world.height - 1 :
            PressureAt(x, y) = SumSeq(MassesFrom(x, y))

\* The pressure has been recomputed while a cell with mass had an empty
\* cell above it and a cell with mass further up.
ColumnLoadedWitness ==
    /\ JustRecomputed
    /\ \E x \in 0 .. world.width - 1 : \E y \in 0 .. world.height - 3 :
          /\ world.grid[y][x].mass > 0
          /\ world.grid[y + 1][x].mass = 0
          /\ \E z \in y + 2 .. world.height - 1 : world.grid[z][x].mass > 0

(***************************************************************************)
(* Properties of resolve_pressure in the stack (specification SpecPile).   *)
(***************************************************************************)
\* A result of resolve_pressure that takes the particle to the cell left or
\* right of it, whose pressure is strictly lower than that of its own cell.
LateralMove(p, r) ==
    /\ r.p.position[2] = p.position[2]
    /\ Abs(r.p.position[1] - p.position[1]) = PosUnit
    /\ PressureAt(AsUsize(r.p.position[1]), AsUsize(r.p.position[2]))
          < PressureAt(AsUsize(p.position[1]), AsUsize(p.position[2]))

CanRelocate(k) ==
    \E r \in resolve_pressure(particles[k], world) : LateralMove(particles[k], r)

\* resolve_pressure is about to be called on particle k.
BeforeResolve(k) ==
    IF k = 1 THEN last.op = "update_position" /\ last.k = Len(particles)
    ELSE last.op = "resolve_pressure" /\ last.k = k - 1

\* C14 as the specification states it: in the stack of three sand
\* particles, when resolve_pressure is about to be called on the top
\* particle at (5,2), one of its possible results takes the particle to a
\* lateral neighbour cell of strictly lower pressure.
TopParticleCanRelocate ==
    (StackedSand /\ BeforeResolve(3)) => CanRelocate(3)

\* C14: in the stack of three sand particles resolve_pressure leaves the
\* top particle at (5,2), whose cell reads a pressure equal to the
\* particle's own mass, where it is, whatever check_way chooses; of the
\* three it is the bottom and the middle particle, which carry more than
\* their own mass, that can relocate to a lateral neighbour cell of
\* strictly lower pressure.
TopParticleStays ==
    /\ (StackedSand /\ BeforeResolve(3)) =>
          /\ PressureAt(5, 2) = mass(particles[3])
          /\ \A r \in resolve_pressure(particles[3], world) :
                r.p = particles[3] /\ r.world = world
    /\ (StackedSand /\ last.op = "resolve_pressure" /\ last.k = 3) =>
          particles[3].position = last.before
    /\ (StackIntact /\ BeforeResolve(1)) => CanRelocate(1)
    /\ (StackIntact /\ BeforeResolve(2)) => CanRelocate(2)

\* resolve_pressure has been called on the three particles of the stack:
\* the bottom particle has relocated to (4,0) and the top particle is where
\* it was.
TopStayedWitness ==
    /\ StackedSand
    /\ last.op = "resolve_pressure" /\ last.k = 3
    /\ last.before = <<AsF32(5), AsF32(2)>>
    /\ particles[1].position = <<AsF32(4), 0>>
    /\ particles[2].position = <<AsF32(5), AsF32(1)>>


(***************************************************************************)
(* The write accessors of World called with arbitrary positions            *)
(* (specification SpecAccess): one call on a small world; `last` holds the *)
(* call, its position and the world before it.                             *)
(***************************************************************************)
\* The world: AccessW wide, AccessH high.
AccessW == 2
AccessH == 2

\* Positions from one cell left of and below the world to one cell right of
\* and above it, in steps of half a cell.
AccessCoords(n) == -PosUnit .. (n + 1) * PosUnit

\* A cell as spawn_particles leaves it.
SandCell == [occ |-> Free(0), mass |-> density("Sand"), pressure |-> 0]

InitAccess ==
    /\ \E filled \in SUBSET ((0 .. AccessW - 1) \X (0 .. AccessH - 1)) :
          world = [World_new(AccessH, AccessW) EXCEPT !.grid =
                      [y \in 0 .. AccessH - 1 |-> [x \in 0 .. AccessW - 1 |->
                          IF <<x, y>> \in filled THEN SandCell ELSE EmptyCell]]]
    /\ particles = <<>>
    /\ objects = <<>>
    /\ events = <<>>
    /\ gravity = Gravity
    /\ particle_counter = 0
    /\ object_counter = 0
    /\ selected = "Sand"
    /\ calls = {}
    /\ clear_count = <<>>
    /\ handled = <<>>
    /\ last = NoCall

AccessCall(op, pos) == [op |-> op, pos |-> pos, before |-> world]

CallUpdateMass(pos, m) ==
    /\ last = NoCall
    /\ world' = update_mass_on_position(world, pos, m)
    /\ last' = AccessCall("update_mass_on_position", pos)
    /\ UNCHANGED <<particles, objects, events, gravity, particle_counter,
                   object_counter, selected, calls, clear_count, handled>>

CallUpdateOccupation(pos, ref) ==
    /\ last = NoCall
    /\ world' = update_occupation_on_position(world, pos, ref)
    /\ last' = AccessCall("update_occupation_on_position", pos)
    /\ UNCHANGED <<particles, objects, events, gravity, particle_counter,
                   object_counter, selected, calls, clear_count, handled>>

CallClearOccupation(pos) ==
    /\ last = NoCall
    /\ world' = clear_occupation_on_position(world, pos)
    /\ last' = AccessCall("clear_occupation_on_position", pos)
    /\ UNCHANGED <<particles, objects, events, gravity, particle_counter,
                   object_counter, selected, calls, clear_count, handled>>

CallClearMass(pos) ==
    /\ last = NoCall
    /\ world' = clear_mass_on_position(world, pos)
    /\ last' = AccessCall("clear_mass_on_position", pos)
    /\ UNCHANGED <<particles, objects, events, gravity, particle_counter,
                   object_counter, selected, calls, clear_count, handled>>

NextAccess ==
    \E pos \in AccessCoords(AccessW) \X AccessCoords(AccessH) :
        \/ \E m \in {density("Stein"), density("Luft")} : CallUpdateMass(pos, m)
        \/ \E ref \in {Free(1), Static} : CallUpdateOccupation(pos, ref)
        \/ CallClearOccupation(pos)
        \/ CallClearMass(pos)

SpecAccess == InitAccess /\ [][NextAccess]_vars

(***************************************************************************)
(* Properties of the write accessors (specification SpecAccess).           *)
(***************************************************************************)
\* The coordinate truncated towards zero lies outside 0 .. n - 1.
TruncatedOutside(p, n) == AsI32(p) < 0 \/ AsI32(p) >= n

OutOfRangeCall ==
    /\ last # NoCall
    /\ \/ TruncatedOutside(last.pos[1], last.before.width)
       \/ TruncatedOutside(last.pos[2], last.before.height)

\* C15: a write accessor called with a position whose truncated coordinates
\* lie outside the grid does not fail and leaves every cell as it was.
OutOfRangeWriteDropped ==
    OutOfRangeCall => (~world.panicked /\ world.grid = last.before.grid)


(***************************************************************************)
(* Properties of a whole tick: run_simulation followed by                  *)
(* handle_fragments (specifications SpecLand, Spec).                       *)
(***************************************************************************)
\* What handle_fragments can make of one outcome of run_simulation: one
\* result for every order in which find_fragments can have handed out the
\* fragments of the events.
TickResults(out) ==
    LET st0 == [world |-> out.st.world, particles |-> out.particles,
                objects |-> out.st.objects,
                particle_counter |-> particle_counter,
                object_counter |-> object_counter,
                clear_count |-> clear_count]
        Result(es) ==
            LET st == HandleEvents(st0, es, 1)
            IN  [world |-> st.world, particles |-> st.particles,
                 objects |-> st.objects]
    IN  {Result(es) : es \in OrderEvents(out.st.events)}

\* C16: from every state, and for every outcome of the random choices of
\* the pressure resolution, a tick (run_simulation, then handle_fragments)
\* has one result: the same world grid, particle list and object list.
TickDeterministic ==
    events = <<>> =>
        \A out \in SimulationOutcomes : Cardinality(TickResults(out)) = 1

\* The cell of the world at a position.
WorldCell(w, pos) == w.grid[AsUsize(pos[2])][AsUsize(pos[1])]

\* The particle is registered in world w.
Registered(w, p) ==
    /\ WorldCell(w, p.position).occ = p.particle_ref
    /\ WorldCell(w, p.position).mass = mass(p)

\* The fragments of the pending events with the data handle_fragments
\* extracts for them, per event that is not skipped: the first event of
\* every object named.
PendingData ==
    UNION {{[velocity |-> objects[events[e].object_idx + 1].velocity,
             data |-> extract_fragment_data(objects[events[e].object_idx + 1],
                                            events[e].fragments[f])] :
               f \in 1 .. Len(events[e].fragments)} :
           e \in {e \in 1 .. Len(events) :
                     /\ ~SkipsEvent(objects, events[e].object_idx)
                     /\ \A d \in 1 .. e - 1 :
                           events[d].object_idx # events[e].object_idx}}

AllPendingData ==
    UNION {{[velocity |-> objects[events[e].object_idx + 1].velocity,
             data |-> extract_fragment_data(objects[events[e].object_idx + 1],
                                            events[e].fragments[f])] :
               f \in 1 .. Len(events[e].fragments)} :
           e \in 1 .. Len(events)}

\* The particles and objects the step has appended.
NewParticles == Len(particles) + 1 .. Len(particles')

NewObjects == Len(objects) + 1 .. Len(objects')

\* The step has made exactly one entity of the fragment: of a fragment of
\* one cell a free particle with the cell's position and material, of a
\* larger fragment an object built by new_from_fragment; and the entity is
\* registered in the world.
MaterializedOnce(fd) ==
    IF Len(fd.data) = 1
    THEN /\ Cardinality({k \in NewParticles :
                /\ particles'[k].position = fd.data[1][1]
                /\ particles'[k].material = fd.data[1][2]
                /\ particles'[k].particle_ref = Free(k - 1)}) = 1
         /\ \A k \in NewParticles :
                particles'[k].position = fd.data[1][1] =>
                    Registered(world', particles'[k])
    ELSE /\ Cardinality({o \in NewObjects :
                objects'[o] = new_from_fragment(objects'[o].object_id, o - 1,
                                                fd.data, fd.velocity)}) = 1
         /\ \A o \in NewObjects :
                objects'[o] = new_from_fragment(objects'[o].object_id, o - 1,
                                                fd.data, fd.velocity) =>
                    \A k \in 1 .. Len(get_object_elements(objects'[o])) :
                        LET p == get_object_elements(objects'[o])[k]
                        IN  p.material # "Luft" => Registered(world', p)

BondCall(mat_a, mat_b, prev) ==
    [op |-> "calc_bond_strength", mat_a |-> mat_a, mat_b |-> mat_b,
     strength |-> calc_bond_strength(mat_a, mat_b), prev |-> prev]

InitBond ==
    /\ world = World_new(1, 1)
    /\ particles = <<>>
    /\ objects = <<>>
    /\ events = <<>>
    /\ gravity = Gravity
    /\ particle_counter = 0
    /\ object_counter = 0
    /\ selected = "Sand"
    /\ calls = {}
    /\ clear_count = <<>>
    /\ handled = <<>>
    /\ last = NoCall

CallCalcBondStrength(mat_a, mat_b) ==
    /\ IF last = NoCall THEN TRUE ELSE last.prev = NoCall
    /\ last' = BondCall(mat_a, mat_b, last)
    /\ UNCHANGED <<world, particles, objects, events, gravity, particle_counter,
                   object_counter, selected, calls, clear_count, handled>>

NextBond ==
    \E mat_a \in MaterialTyp, mat_b \in MaterialTyp :
        CallCalcBondStrength(mat_a, mat_b)

SpecBond == InitBond /\ [][NextBond]_vars

\* The second call has the materials of the first the other way round.
SwappedCalls ==
    /\ last # NoCall /\ last.prev # NoCall
    /\ last.mat_a = last.prev.mat_b
    /\ last.mat_b = last.prev.mat_a

\* C18: calc_bond_strength(A, B) and calc_bond_strength(B, A) return the
\* same strength: the binding strength of the material when A = B, and
\* otherwise half the smaller of the two binding strengths.
BondStrengthSymmetric ==
    SwappedCalls =>
        /\ last.strength = last.prev.strength
        /\ last.mat_a = last.mat_b =>
              last.strength = binding_strength(last.mat_a)
        /\ last.mat_a # last.mat_b =>
              /\ 2 * last.strength <= binding_strength(last.mat_a)
              /\ 2 * last.strength <= binding_strength(last.mat_b)
              /\ 2 * last.strength \in {binding_strength(last.mat_a),
                                        binding_strength(last.mat_b)}

\* calc_bond_strength has been called on (Holz, Metall) and then on
\* (Metall, Holz).
SwappedBondWitness ==
    /\ SwappedCalls
    /\ last.mat_a = "Metall" /\ last.mat_b = "Holz"
    /\ 2 * last.strength = binding_strength("Holz")


(***************************************************************************)
(* Properties of the world grid under the frame systems (specification     *)
(* Spec).                                                                  *)
(***************************************************************************)
\* C19: every cell of the world grid that has an occupant has a mass
\* greater than 0.
OccupantHasMass ==
    \A y \in 0 .. world.height - 1 : \A x \in 0 .. world.width - 1 :
        world.grid[y][x].occ # NoRef => world.grid[y][x].mass > 0

\* A spawned particle has moved away from the row it was spawned in and
\* occupies its cell, an object occupies cells too, and handle_fragments
\* has run.
MovedOccupantsWitness ==
    /\ Len(particles) >= 1
    /\ AsUsize(particles[1].position[2]) < world.height - 2
    /\ WorldCell(world, particles[1].position).occ = particles[1].particle_ref
    /\ \E y \in 0 .. world.height - 1 : \E x \in 0 .. world.width - 1 :
          world.grid[y][x].occ.kind = "InObject"
    /\ handled # <<>>

(***************************************************************************)
(* Properties of fall_down (specification SpecPart).                       *)
(***************************************************************************)
\* C20: fall_down leaves the x coordinate of a particle of a solid material
\* as it is.
SolidFallsStraight ==
    (last.op = "fall_down" /\ is_solid(particles[last.k].material)) =>
        particles[last.k].position[1] = last.before[1]

(***************************************************************************)
(* Whole ticks of run_simulation over the particle worlds of SpecPart      *)
(* (specification SpecTick).                                               *)
(***************************************************************************)
NextTick == RunSimulation

SpecTick == InitPart /\ [][NextTick]_vars

\* The cell (x, y) of the world is free.
CellFree(w, x, y) ==
    /\ InGrid(w, x, y)
    /\ give_occupation_on_position(w, x, y) = NoRef

\* Particle k is a liquid at rest whose cell directly below is occupied.
LiquidOnSupport(k) ==
    LET c == CellOf(particles[k].position)
    IN  /\ ~is_solid(particles[k].material)
        /\ particles[k].velocity = <<0, 0>>
        /\ c[2] >= 1
        /\ give_occupation_on_position(world, c[1], c[2] - 1) # NoRef

\* Where the lateral flow of the specification puts particle k within a tick:
\* the free side of lower pressure, either side on a tie, the only free side,
\* or its own cell.
FlowTargets(k) ==
    LET c == CellOf(particles[k].position)
        w == calc_pressure_on_all_position(world)
        left == <<c[1] - 1, c[2]>>
        right == <<c[1] + 1, c[2]>>
        left_free == CellFree(w, left[1], left[2])
        right_free == CellFree(w, right[1], right[2])
        pl == give_pressure_on_position(w, left[1], left[2])
        pr == give_pressure_on_position(w, right[1], right[2])
    IN  IF left_free /\ right_free
        THEN (IF pl <= pr THEN {left} ELSE {}) \cup (IF pr <= pl THEN {right} ELSE {})
        ELSE IF left_free THEN {left}
        ELSE IF right_free THEN {right}
        ELSE {c}

\* C21: a tick moves a liquid particle that rests on an occupied cell
\* sideways: to the free side of lower pressure (either on a tie), to the
\* only free side, and nowhere if neither side is free.
LiquidFlowsSideways ==
    [][Len(particles) = 1 /\ LiquidOnSupport(1)
          => CellOf(particles'[1].position) \in FlowTargets(1)]_vars

(***************************************************************************)
(* Properties of check_fracture on objects with air cells (SpecObj).       *)
(***************************************************************************)
\* force * dampening / (i + 1) > strength, for the row i of the bond's
\* first cell.
ForceAtRowExceeds(force, dampening, i, strength) ==
    force * dampening[1] > strength * PosUnit * dampening[2] * (i + 1)

\* The bonds between two non-air neighbours the damped force breaks.
BreakingBonds(obj, force, dampening) ==
    {b \in Adjacent(obj) :
        ForceAtRowExceeds(force, dampening, b[1][1], BondStrengthOf(obj, b))}

\* C22: check_fracture returns exactly the bonds between a non-air cell and
\* its non-air right or up neighbour whose strength the force at the row of
\* the cell exceeds, whatever the cell's other neighbour is.
FractureReportsEveryBond ==
    last.op = "check_fracture" =>
        ToSet(last.broken) = BreakingBonds(objects[1], last.force, last.dampening)

(***************************************************************************)
(* Calls of Object::clear_from_world on an object registered in a world    *)
(* that holds free particles as well, some of them in the cells under the  *)
(* object's air cells (specification SpecClear).                           *)
(***************************************************************************)
\* The grid cells <<x, y>> at the positions of the object's cells of the
\* given kind.
CellsUnder(obj, air) ==
    {CellOf(obj.object_grid[c[1]][c[2]].position) :
        c \in {c \in (0 .. obj.object_h - 1) \X (0 .. obj.object_w - 1) :
                  (MaterialAt(obj, c[1], c[2]) = "Luft") = air}}

\* Where the free particles may lie: under the air cells of the object and
\* in the top right corner of the world.
OtherCells(obj) ==
    (CellsUnder(obj, TRUE) \cup {<<ObjWorldW - 1, ObjWorldH - 1>>})
        \ CellsUnder(obj, FALSE)

InitClear ==
    /\ \E o \in {t \in TestObjects : CellsUnder(t, FALSE) # {}} :
       \E others \in SUBSET OtherCells(o) :
          /\ objects = <<o>>
          /\ particles = [k \in 1 .. Cardinality(others) |->
                Particle_new(k, <<AsF32(SeqOf(others)[k][1]),
                                  AsF32(SeqOf(others)[k][2])>>,
                             <<0, 0>>, "Sand", Free(k - 1))]
          /\ world = WithParticles(
                         WriteElements(get_object_elements(o),
                                       World_new(ObjWorldH, ObjWorldW), 1, FALSE),
                         particles, 1)
    /\ events = <<>>
    /\ gravity = Gravity
    /\ particle_counter = Len(particles)
    /\ object_counter = 1
    /\ selected = "Sand"
    /\ calls = {}
    /\ clear_count = <<0>>
    /\ handled = <<>>
    /\ last = NoCall

CallClearFromWorld ==
    /\ last = NoCall
    /\ world' = clear_from_world(objects[1], world)
    /\ last' = [op |-> "clear_from_world", before |-> world]
    /\ UNCHANGED <<particles, objects, events, gravity, particle_counter,
                   object_counter, selected, calls, clear_count, handled>>

NextClear == CallClearFromWorld

SpecClear == InitClear /\ [][NextClear]_vars

\* C23: clear_from_world clears occupancy and mass of the grid cells under
\* the object's non-air cells and leaves every other grid cell as it was,
\* the cells under its air cells included.
ClearsNonAirCellsOnly ==
    last.op = "clear_from_world" =>
        \A x \in 0 .. ObjWorldW - 1 : \A y \in 0 .. ObjWorldH - 1 :
            IF <<x, y>> \in CellsUnder(objects[1], FALSE)
            THEN /\ world.grid[y][x].occ = NoRef
                 /\ world.grid[y][x].mass = 0
            ELSE world.grid[y][x] = last.before.grid[y][x]

(***************************************************************************)
(* Properties of resolve_pressure, check_way, update_velocity and          *)
(* fall_down, call by call (specifications SpecPile, SpecPart).            *)
(***************************************************************************)
\* The stored pressure of the cell <<x, y>> of the world w.
PressureOf(w, c) == give_pressure_on_position(w, c[1], c[2])

\* C24: a call of resolve_pressure that relocates the particle takes it to
\* an adjacent cell that was unoccupied, had strictly lower pressure than
\* the particle's own cell and does not lie in a row above it; every other
\* call leaves the particles and the grid unchanged.
RelocatesOnlyToFreeLowerCell ==
    [][last'.op = "resolve_pressure" =>
          LET p == particles[last'.k]
              q == particles'[last'.k]
              own == CellOf(p.position)
              target == CellOf(q.position)
          IN  IF q.position # p.position
              THEN /\ give_occupation_on_position(world, target[1], target[2])
                         = NoRef
                   /\ PressureOf(world, target) < PressureOf(world, own)
                   /\ target[2] <= own[2]
                   /\ Abs(target[1] - own[1]) <= 1
                   /\ Abs(target[2] - own[2]) <= 1
                   /\ \A k \in 1 .. Len(particles) :
                         k # last'.k => particles'[k] = particles[k]
              ELSE particles' = particles /\ world' = world]_vars

\* resolve_pressure has relocated the middle particle of a stack of three to
\* the cell beside it, after the bottom particle had left the column.
MiddleRelocatedWitness ==
    /\ Len(particles) = 3
    /\ last.op = "resolve_pressure" /\ last.k = 2
    /\ particles[2].position[2] = last.before[2]
    /\ particles[2].position[1] # last.before[1]
    /\ particles[1].position[1] # last.before[1]

\* C26: a call of resolve_pressure on a particle whose cell stores a
\* pressure less than or equal to the particle's own mass changes neither
\* the particles nor the grid.
NoRelocationUnderOwnMass ==
    [][(/\ last'.op = "resolve_pressure"
        /\ PressureOf(world, CellOf(particles[last'.k].position))
              <= mass(particles[last'.k]))
          => particles' = particles /\ world' = world]_vars

\* resolve_pressure has left a particle in its cell, whose pressure equals
\* the particle's mass, although the cell to its left is free and of
\* strictly lower pressure.
OwnMassHeldWitness ==
    /\ last.op = "resolve_pressure"
    /\ LET p == particles[last.k]
           c == CellOf(p.position)
       IN  /\ p.position = last.before
           /\ PressureOf(world, c) = mass(p)
           /\ c[1] >= 1
           /\ give_occupation_on_position(world, c[1] - 1, c[2]) = NoRef
           /\ PressureOf(world, <<c[1] - 1, c[2]>>) < PressureOf(world, c)

(***************************************************************************)
(* Calls of Particle::check_way in worlds of every size up to WayW x WayH, *)
(* before and after the pressure has been computed (specification          *)
(* SpecWay).  `last` holds the call and the way it returned, <<>> for      *)
(* None.                                                                   *)
(***************************************************************************)
WayW == 3
WayH == 3
WayMax == 3

\* One to WayMax particles at rest in different cells of a w x h world.
WayParticles(h, w) ==
    LET cells == (0 .. w - 1) \X (0 .. h - 1)
    IN  UNION {{ps \in [1 .. n -> cells \X {"Sand", "Wasser"}] :
                   \A a \in 1 .. n : \A b \in 1 .. n :
                       a # b => ps[a][1] # ps[b][1]} : n \in 1 .. WayMax}

InitWay ==
    /\ \E h \in 1 .. WayH, w \in 1 .. WayW : \E ps \in WayParticles(h, w) :
          /\ particles = [k \in 1 .. Len(ps) |->
                            Particle_new(k, <<AsF32(ps[k][1][1]),
                                              AsF32(ps[k][1][2])>>,
                                         <<0, 0>>, ps[k][2], Free(k - 1))]
          /\ world = WithParticles(World_new(h, w), particles, 1)
    /\ objects = <<>>
    /\ events = <<>>
    /\ gravity = Gravity
    /\ particle_counter = Len(particles)
    /\ object_counter = 0
    /\ selected = "Sand"
    /\ calls = {}
    /\ clear_count = <<>>
    /\ handled = <<>>
    /\ last = NoCall

CallCheckWay(k) ==
    /\ last.op \in {"none", "calc_pressure_on_all_position"}
    /\ k <= Len(particles)
    /\ LET ways == check_way(particles[k], world)
       IN  \E way \in (IF ways = {} THEN {<<>>} ELSE ways) :
              last' = [op |-> "check_way", k |-> k,
                       before |-> particles[k].position, way |-> way]
    /\ UNCHANGED <<world, particles, objects, events, gravity,
                   particle_counter, object_counter, selected, calls,
                   clear_count, handled>>

NextWay ==
    \/ StepCalcPressure
    \/ \E k \in 1 .. WayMax : CallCheckWay(k)

SpecWay == InitWay /\ [][NextWay]_vars

\* The cells around particle k that lie in the grid, without the cell
\* straight above it.
Candidates(k) ==
    LET own == CellOf(particles[k].position)
    IN  {c \in {<<own[1] + dx, own[2] + dy>> : dx \in -1 .. 1, dy \in -1 .. 1} :
            /\ InGrid(world, c[1], c[2])
            /\ c # own
            /\ c # <<own[1], own[2] + 1>>}

\* The candidates of particle k no other candidate undercuts in pressure.
LeastCandidates(k) ==
    {c \in Candidates(k) :
        \A d \in Candidates(k) : PressureOf(world, c) <= PressureOf(world, d)}

\* C25: the cell check_way returns is one of the in-grid neighbours other
\* than the cell straight above, with the least pressure among them; every
\* neighbour of that least pressure can be returned; without any such
\* neighbour the result is None; the particle stays where it is.
CheckWayChoosesMinimum ==
    /\ \A k \in 1 .. Len(particles) :
          {<<way[2], way[3]>> : way \in check_way(particles[k], world)}
              = LeastCandidates(k)
    /\ last.op = "check_way" =>
          /\ particles[last.k].position = last.before
          /\ IF Candidates(last.k) = {} THEN last.way = <<>>
             ELSE /\ last.way # <<>>
                  /\ <<last.way[2], last.way[3]>> \in LeastCandidates(last.k)
                  /\ last.way[1] = PressureOf(world, <<last.way[2], last.way[3]>>)

\* check_way has returned one of several neighbours tied at a pressure above
\* zero, while another neighbour has a larger pressure.
TiedMinimumWitness ==
    /\ last.op = "check_way"
    /\ last.way # <<>>
    /\ last.way[1] > 0
    /\ Cardinality(LeastCandidates(last.k)) >= 2
    /\ LeastCandidates(last.k) # Candidates(last.k)

\* C27: for a particle without horizontal velocity, update_velocity sets
\* the vertical velocity to 0 when the cell at the projected height
\* position.y + velocity.y + gravity.y (row 0 if that is negative) is
\* occupied, and to -position.y when the projected height is negative and
\* the cell in row 0 is free; the update_position that follows adds the
\* velocity to the position, so that the particle keeps its cell in the
\* first case, lands at y = 0 in the second and never has a negative y.
VelocityStopsAtFloorAndObstacle ==
    [][LET k == last'.k
           p == particles[k]
           q == particles'[k]
           next_y == p.position[2] + p.velocity[2] + gravity[2]
           probe == <<AsUsize(p.position[1]),
                      AsUsize(IF next_y < 0 THEN 0 ELSE next_y)>>
       IN  /\ (last'.op = "update_velocity" /\ p.velocity[1] = 0) =>
                 /\ q.position = p.position
                 /\ give_occupation_on_position(world, probe[1], probe[2]) # NoRef
                       => q.velocity[2] = 0
                 /\ (/\ next_y < 0
                     /\ give_occupation_on_position(world, probe[1], 0) = NoRef)
                       => q.velocity[2] = -p.position[2]
           /\ (last'.op = "update_position" /\ p.velocity[1] = 0) =>
                 /\ q.position[2] >= 0
                 /\ q.position = <<p.position[1], p.position[2] + p.velocity[2]>>
                 /\ p.velocity[2] = 0 => CellOf(q.position) = CellOf(p.position)
                 /\ p.velocity[2] = -p.position[2] => q.position[2] = 0]_vars

\* update_velocity has just been called on a falling particle above row 0
\* whose projected height was negative while the cell below it in row 0 was
\* free: its velocity is now -position.y, not the velocity it had plus the
\* gravity.
FloorClampWitness ==
    /\ last.op = "update_velocity"
    /\ LET p == particles[last.k]
       IN  /\ p.position[2] > 0
           /\ last.velocity[2] # 0
           /\ p.position[2] + last.velocity[2] + gravity[2] < 0
           /\ p.velocity[2] = -p.position[2]
           /\ p.velocity[2] # last.velocity[2] + gravity[2]

\* Where fall_down takes a particle in cell c of the world w: nowhere from
\* row 0, else to the first free cell of down, down-left and down-right.
FirstFreeBelow(w, c) ==
    IF c[2] = 0 THEN c
    ELSE IF CellFree(w, c[1], c[2] - 1) THEN <<c[1], c[2] - 1>>
    ELSE IF c[1] > 0 /\ CellFree(w, c[1] - 1, c[2] - 1)
    THEN <<c[1] - 1, c[2] - 1>>
    ELSE IF c[1] < w.width - 1 /\ CellFree(w, c[1] + 1, c[2] - 1)
    THEN <<c[1] + 1, c[2] - 1>>
    ELSE c

\* C28: fall_down leaves a particle in row 0 alone; any other particle it
\* moves by one cell to the first free cell of straight down, down-left
\* (if x > 0) and down-right (if x < width - 1), and it changes nothing if
\* none of them is free; the cell it moves a particle into was unoccupied.
FallDownTakesFirstFree ==
    [][last'.op = "fall_down" =>
          LET k == last'.k
              own == CellOf(particles[k].position)
              target == FirstFreeBelow(world, own)
          IN  /\ CellOf(particles'[k].position) = target
              /\ \A m \in 1 .. Len(particles) :
                    m # k => particles'[m] = particles[m]
              /\ IF target = own
                 THEN particles' = particles /\ world' = world
                 ELSE give_occupation_on_position(world, target[1], target[2])
                         = NoRef]_vars

\* fall_down has moved a particle to the cell down-right of it: the cells
\* below and down-left of it were not available.
FellDownRightWitness ==
    /\ last.op = "fall_down"
    /\ particles[last.k].position
          = <<last.before[1] + PosUnit, last.before[2] - PosUnit>>

(***************************************************************************)
(* Calls of Object::update_object_velocity on an object above or in row 0  *)
(* of a small world, at rest or falling, where every cell of row 0 under   *)
(* or beside it is free, static, a free particle or a cell of another      *)
(* object (specification SpecImpact).  `last` holds the call: the object   *)
(* before it, what it returned, and the impact force and the dampening     *)
(* factor computed for the collisions of the bottom edge.                  *)
(***************************************************************************)
ImpactW == 3
ImpactH == 4

SupportKinds == {"None", "Static", "Free", "Object"}

\* Vertical velocities of the object: at rest, one cell and three cells a
\* tick downwards.
ImpactVelocities == {0, -PosUnit, -3 * PosUnit}

\* The columns of row 0 that hold the given kind, from left to right.
ColumnsOf(surface, kind) ==
    SelectSeq([x \in 1 .. ImpactW |-> x - 1], LAMBDA x : surface[x] = kind)

\* Registers the objects k .. n in the world, as spawn_object does.
RECURSIVE WithObjects(_, _, _)
WithObjects(w, objs, k) ==
    IF Evaluated(w) /\ k > Len(objs) THEN w
    ELSE WithObjects(WriteElements(get_object_elements(objs[k]), w, 1, TRUE),
                     objs, k + 1)

InitImpact ==
    /\ \E surface \in [0 .. ImpactW - 1 -> SupportKinds] :
       \E m \in {"Sand", "Stein", "Wasser"} :
       \E h \in 1 .. BlockSize, w \in 1 .. ImpactW :
       \E x \in 0 .. ImpactW - w, y \in 0 .. ImpactH - h :
       \E v \in ImpactVelocities :
          LET free == ColumnsOf(surface, "Free")
              other == ColumnsOf(surface, "Object")
              w0 == [World_new(ImpactH, ImpactW) EXCEPT !.grid =
                       [r \in 0 .. ImpactH - 1 |-> [c \in 0 .. ImpactW - 1 |->
                           IF r = 0 /\ surface[c] = "Static"
                           THEN StaticCell ELSE EmptyCell]]]
          IN  /\ y = 0 => \A j \in 0 .. w - 1 : surface[x + j] = "None"
              /\ particles = [k \in 1 .. Len(free) |->
                    Particle_new(k, <<AsF32(free[k]), 0>>, <<0, 0>>, "Sand",
                                 Free(k - 1))]
              /\ objects = <<Object_new(1, 0, <<AsF32(x), AsF32(y)>>,
                                        <<0, v>>, m, h, w)>>
                    \o [k \in 1 .. Len(other) |->
                          Object_new(k + 1, k, <<AsF32(other[k]), 0>>,
                                     <<0, 0>>, "Stein", 1, 1)]
              /\ world = WithObjects(WithParticles(w0, particles, 1), objects, 1)
    /\ events = <<>>
    /\ gravity = Gravity
    /\ particle_counter = Len(particles)
    /\ object_counter = Len(objects)
    /\ selected = "Sand"
    /\ calls = {}
    /\ clear_count = [k \in 1 .. Len(objects) |-> 0]
    /\ handled = <<>>
    /\ last = NoCall

CallUpdateObjectVelocity ==
    LET v == update_object_velocity(objects[1], gravity, world)
    IN  /\ last = NoCall
        /\ objects' = [objects EXCEPT ![1] = v.obj]
        /\ last' = [op |-> "update_object_velocity", before |-> objects[1],
                    some |-> v.some, fragments |-> v.fragments,
                    force |-> calc_impact_force(v.obj, objects[1].velocity[2]),
                    dampening |->
                        calc_dampening_factor(BottomCollisions(objects[1]))]
        /\ UNCHANGED <<world, particles, events, gravity, particle_counter,
                       object_counter, selected, calls, clear_count, handled>>

NextImpact == CallUpdateObjectVelocity

SpecImpact == InitImpact /\ [][NextImpact]_vars

\* The row update_object_velocity probes for the object obj.
ProbedRow(obj) ==
    LET next_y == obj.position[2] + obj.velocity[2] + gravity[2]
    IN  IF next_y < 0 THEN 0 ELSE AsUsize(next_y)

\* Column j of the bottom edge of obj finds an occupied cell in that row.
EdgeHits(obj, j) ==
    give_occupation_on_position(world, AsUsize(obj.position[1]) + j,
                                ProbedRow(obj)) # NoRef

\* C29: update_object_velocity sets the vertical velocity to 0 when a cell
\* of the probed row under the bottom edge is occupied; otherwise it sets it
\* to -position.y when the projected height is negative, so that the object
\* lands on row 0, and adds the gravity when it is not; it returns
\* fragments exactly when the object was moving, hit something and
\* check_fracture reports a broken bond for the impact, and these are the
\* fragments find_fragments finds for those bonds.
ObjectVelocityFollowsCollision ==
    last.op = "update_object_velocity" =>
        LET obj == last.before
            next_y == obj.position[2] + obj.velocity[2] + gravity[2]
            hit == \E j \in 0 .. obj.object_w - 1 : EdgeHits(obj, j)
            stopped == [obj EXCEPT !.velocity[2] = 0]
            broken_bonds == check_fracture(stopped, last.force, last.dampening)
        IN  /\ hit => objects[1] = stopped
            /\ (~hit /\ next_y < 0) =>
                  /\ objects[1] = [obj EXCEPT !.velocity[2] = -obj.position[2]]
                  /\ update_object_position(objects[1], world).obj.position[2] = 0
            /\ (~hit /\ next_y >= 0) =>
                  objects[1] = [obj EXCEPT !.velocity[2] = @ + gravity[2]]
            /\ last.some <=>
                  (hit /\ obj.velocity[2] # 0 /\ broken_bonds # <<>>)
            /\ last.some =>
                  last.fragments = find_fragments(stopped, broken_bonds)

\* update_object_velocity has stopped a falling object and returned its
\* fragments, although the cell probed under its anchor was free: another
\* column of its bottom edge hit an occupied cell.
EdgeImpactWitness ==
    /\ last.op = "update_object_velocity"
    /\ last.some
    /\ Cardinality(last.fragments) >= 2
    /\ ~EdgeHits(last.before, 0)
    /\ objects[1].velocity[2] = 0

\* The per-kind constant of a collision reference, in tenths.
Tenths(ref) ==
    IF ref.kind = "Static" THEN 10 ELSE IF ref.kind = "Free" THEN 4 ELSE 6

\* The references found in the probed row under the bottom edge of obj, one
\* for every column that finds an occupied cell.
EdgeRefs(obj) ==
    SelectSeq([j \in 1 .. obj.object_w |->
                  give_occupation_on_position(world,
                      AsUsize(obj.position[1]) + j - 1, ProbedRow(obj))],
              LAMBDA r : r # NoRef)

\* The average of the constants of the references refs, as a fraction.
AverageOf(refs) ==
    <<SumSeq([k \in 1 .. Len(refs) |-> Tenths(refs[k])]), 10 * Len(refs)>>

SameFraction(a, b) == a[1] * b[2] = b[1] * a[2]

\* update_object_velocity has been called on a moving object whose bottom
\* edge hit something.
ImpactCall ==
    /\ last.op = "update_object_velocity"
    /\ last.before.velocity[2] # 0
    /\ EdgeRefs(last.before) # <<>>

\* The force is totalMass * |velocity before|, the dampening is d, and
\* fragments are returned exactly if the force damped by d breaks a bond.
ImpactDampedBy(d) ==
    /\ last.force
          = last.before.total_object_mass * Abs(last.before.velocity[2])
    /\ SameFraction(last.dampening, d)
    /\ last.some <=> BreakingBonds(last.before, last.force, d) # {}

\* C30 as the specification states it: the dampening factor of an impact is
\* the average of the per-kind constants over the distinct collision
\* references, so that several bottom cells hitting static cells count once.
ImpactDampedByDistinctContacts ==
    ImpactCall =>
        ImpactDampedBy(AverageOf(SeqOf(ToSet(EdgeRefs(last.before)))))

\* C30: on an impact the force handed to check_fracture is
\* totalMass * |velocity before impact|, and the dampening factor is the
\* average of the per-kind constants Static 1.0, Free 0.4, InObject 0.6 over
\* all collision references, one for every bottom cell that hit something:
\* a reference that several bottom cells hit counts once for each of them.
ImpactDampedByAllContacts ==
    ImpactCall => ImpactDampedBy(AverageOf(EdgeRefs(last.before)))

\* An impact of a bottom edge three cells wide on two static cells and a
\* free particle: the dampening factor is 2.4 / 3 = 0.8.
MixedContactsWitness ==
    /\ ImpactCall
    /\ Len(EdgeRefs(last.before)) = 3
    /\ Cardinality({k \in 1 .. 3 : EdgeRefs(last.before)[k] = Static}) = 2
    /\ Cardinality({k \in 1 .. 3 : EdgeRefs(last.before)[k].kind = "Free"}) = 1
    /\ SameFraction(last.dampening, <<8, 10>>)


(***************************************************************************)
(* The pressure field over a tick (specification Spec).                    *)
(***************************************************************************)
\* The third component of every grid cell.
PressureField(w) ==
    [y \in 0 .. w.height - 1 |-> [x \in 0 .. w.width - 1 |->
        w.grid[y][x].pressure]]

\* A step of run_simulation: no event is pending and neither a spawn nor a
\* key press is what changes the state.
TickStep ==
    /\ events = <<>>
    /\ particle_counter' = particle_counter
    /\ object_counter' = object_counter
    /\ selected' = selected

\* C31: only calc_pressure_on_all_position writes the pressure of a cell: a
\* tick leaves in every cell the pressure computed from the grid as it was
\* before any entity moved, and spawning, a key press and the materializing
\* of events leave every pressure as it was.
PressureWrittenOncePerTick ==
    [][IF TickStep
       THEN PressureField(world')
                = PressureField(calc_pressure_on_all_position(world))
       ELSE PressureField(world') = PressureField(world)]_vars

\* After a tick in which an entity moved some cell still holds the pressure
\* of the column as it was before the move.
StalePressureWitness ==
    /\ \E y \in 0 .. world.height - 1 : \E x \in 0 .. world.width - 1 :
          world.grid[y][x].pressure > 0
    /\ PressureField(world)
          # PressureField(calc_pressure_on_all_position(world))


(***************************************************************************)
(* update_object_position of an object at rest (specification SpecStack).  *)
(***************************************************************************)
\* The object the next run of run_simulation handles first.
FirstLive(k) ==
    /\ k \in 1 .. Len(objects)
    /\ ~SkipsObject(objects[k])
    /\ \A n \in 1 .. k - 1 : SkipsObject(objects[n])

\* C32: when the next tick calls update_object_position for an object whose
\* velocity is (0, 0), the call changes nothing: the grid and the object are
\* after the call what they were before it.
ZeroVelocityUpdateIsNoOp ==
    \A k \in 1 .. Len(objects) :
        (events = <<>> /\ FirstLive(k)) =>
            LET w1 == calc_pressure_on_all_position(world)
                v == update_object_velocity(objects[k], gravity, w1)
            IN  (~v.some /\ v.obj.velocity = <<0, 0>>)
                    => update_object_position(v.obj, w1)
                           = [obj |-> v.obj, world |-> w1]


(***************************************************************************)
(* The object built from one fragment (specification SpecObj).             *)
(***************************************************************************)
\* The world cells of the fragment's cells of the fractured object.
FragmentWorldCells(obj, fragment) ==
    {CellOf(obj.object_grid[fragment[k][1]][fragment[k][2]].position) :
        k \in 1 .. Len(fragment)}

\* The materials the fractured object has at world cell c within the fragment.
FragmentMaterialsAt(obj, fragment, c) ==
    {obj.object_grid[fragment[k][1]][fragment[k][2]].material :
        k \in {n \in 1 .. Len(fragment) :
                 CellOf(obj.object_grid[fragment[n][1]][fragment[n][2]].position)
                     = c}}

\* C33: the object new_from_fragment builds from extract_fragment_data of a
\* fragment has the tight bounding box of the fragment's world cells as its
\* anchor and its height x width, at every world cell of the fragment a cell
\* of that cell's material, Luft in every other cell of the box, and the sum
\* of the densities of the fragment's cells as its total mass.
FragmentObjectIsTightBox ==
    last.op = "new_from_fragment" =>
        LET o == last.object
            cells == FragmentWorldCells(objects[1], last.fragment)
            a == CellOf(o.position)
        IN  /\ \A c \in cells :
                  /\ a[1] <= c[1] /\ c[1] <= a[1] + o.object_w - 1
                  /\ a[2] <= c[2] /\ c[2] <= a[2] + o.object_h - 1
            /\ \E c \in cells : c[1] = a[1]
            /\ \E c \in cells : c[1] = a[1] + o.object_w - 1
            /\ \E c \in cells : c[2] = a[2]
            /\ \E c \in cells : c[2] = a[2] + o.object_h - 1
            /\ DOMAIN o.object_grid = 0 .. o.object_h - 1
            /\ \A i \in 0 .. o.object_h - 1 :
                  /\ DOMAIN o.object_grid[i] = 0 .. o.object_w - 1
                  /\ \A j \in 0 .. o.object_w - 1 :
                        LET p == o.object_grid[i][j]
                        IN  /\ CellOf(p.position) = <<a[1] + j, a[2] + i>>
                            /\ IF CellOf(p.position) \in cells
                               THEN /\ p.material # "Luft"
                                    /\ FragmentMaterialsAt(objects[1],
                                           last.fragment, CellOf(p.position))
                                         = {p.material}
                               ELSE p.material = "Luft"
            /\ o.total_object_mass =
                  SumSeq([k \in 1 .. Len(last.fragment) |->
                            density(MaterialAt(objects[1], last.fragment[k][1],
                                               last.fragment[k][2]))])

\* A fragment of two materials whose bounding box has a hole.
FragmentWithHoleWitness ==
    /\ last.op = "new_from_fragment"
    /\ Len(last.fragment) < last.object.object_h * last.object.object_w
    /\ Cardinality({MaterialAt(objects[1], last.fragment[k][1],
                               last.fragment[k][2]) :
                       k \in 1 .. Len(last.fragment)}) > 1
    /\ CellOf(last.object.position) # <<0, 0>>


(***************************************************************************)
(* The grid against the entities after a tick.                             *)
(***************************************************************************)
\* The free particles and the non-air cells of the live objects.
LiveCells ==
    {particles[k] : k \in 1 .. Len(particles)}
    \cup UNION {{objects[o].object_grid[c[1]][c[2]] : c \in NonAirCells(objects[o])} :
                  o \in {o \in 1 .. Len(objects) : ~objects[o].is_destroyed}}

\* C34: after a tick (run_simulation and then handle_fragments) the grid
\* cell of every free particle and of every non-air cell of a live object
\* holds that entity's reference and mass, and every occupied cell that is
\* not static holds the reference of a live entity located in that cell.
GridAgreesWithEntities ==
    events = <<>> =>
        /\ \A p \in LiveCells :
              /\ InGrid(world, AsUsize(p.position[1]), AsUsize(p.position[2]))
              /\ Registered(world, p)
        /\ \A y \in 0 .. world.height - 1 : \A x \in 0 .. world.width - 1 :
              world.grid[y][x].occ \notin {NoRef, Static} =>
                  \E p \in LiveCells :
                      /\ CellOf(p.position) = <<x, y>>
                      /\ p.particle_ref = world.grid[y][x].occ


(***************************************************************************)
(* The program with room for the 4 x 4 quadrant block: a world just wide   *)
(* enough for it, into which particles are spawned and one quadrant block  *)
(* is placed by a shift-click (specification SpecQuad).                    *)
(***************************************************************************)
QuadW == 4
QuadH == 8

InitQuad ==
    /\ world = SetupWorld(QuadH, QuadW)
    /\ particles = <<>>
    /\ objects = <<>>
    /\ events = <<>>
    /\ gravity = Gravity
    /\ particle_counter = 0
    /\ object_counter = 0
    /\ selected = "Sand"
    /\ calls = {}
    /\ clear_count = <<>>
    /\ handled = <<>>
    /\ last = NoCall

QuadSpawn(grid_x, grid_y) ==
    /\ objects = <<>>
    /\ SpawnObjectUpTo(grid_x, grid_y, TRUE, 1)

NextQuad ==
    \/ \E d \in SpawnOffsets : SpawnParticle(d)
    \/ \E x \in 0 .. QuadW - 1, y \in 0 .. QuadH - 1 : QuadSpawn(x, y)
    \/ RunSimulation
    \/ HandleFragments

SpecQuad == InitQuad /\ [][NextQuad]_vars

\* C35: every event run_simulation hands to handle_fragments, from an
\* impact or from pressure, holds at least two fragments.
EveryEventSplits ==
    \A e \in 1 .. Len(events) : Len(events[e].fragments) >= 2


\* C36: none of the references update_object_velocity collects under the
\* bottom edge of an object refers to a cell of that object itself.
NeverCollidesWithItself ==
    last.op = "update_object_velocity" =>
        \A k \in 1 .. Len(EdgeRefs(last.before)) :
            ~(/\ EdgeRefs(last.before)[k].kind = "InObject"
              /\ EdgeRefs(last.before)[k].a = 0)


(***************************************************************************)
(* The program in a narrow world into which sand particles and one sand    *)
(* block are spawned (specification SpecHole).                             *)
(***************************************************************************)
HoleW == 2
HoleH == 7
MaxHoleParticles == 6

InitHole ==
    /\ world = SetupWorld(HoleH, HoleW)
    /\ particles = <<>>
    /\ objects = <<>>
    /\ events = <<>>
    /\ gravity = Gravity
    /\ particle_counter = 0
    /\ object_counter = 0
    /\ selected = "Sand"
    /\ calls = {}
    /\ clear_count = <<>>
    /\ handled = <<>>
    /\ last = NoCall

HoleSpawn(grid_x, grid_y) ==
    /\ objects = <<>>
    /\ SpawnObjectUpTo(grid_x, grid_y, FALSE, 1)

NextHole ==
    \/ \E d \in SpawnOffsets : SpawnParticleUpTo(d, MaxHoleParticles)
    \/ \E x \in 0 .. HoleW - 1, y \in 0 .. HoleH - 1 : HoleSpawn(x, y)
    \/ RunSimulation
    \/ HandleFragments

SpecHole == InitHole /\ [][NextHole]_vars

(***************************************************************************)
(* The grid over handle_fragments.                                         *)
(***************************************************************************)
\* The world cells of the non-air cells of the objects the pending events
\* name.
FracturedCells ==
    UNION {{CellOf(objects[events[e].object_idx + 1]
                       .object_grid[c[1]][c[2]].position) :
               c \in NonAirCells(objects[events[e].object_idx + 1])} :
           e \in {e \in 1 .. Len(events) :
                    events[e].object_idx + 1 \in 1 .. Len(objects)}}

\* C37: handle_fragments leaves occupied what was occupied and free what was
\* free, leaves the mass of every cell as it was, and changes the occupant
\* reference of no cell but those of the fractured objects.
MaterializingKeepsGrid ==
    [][events # <<>> =>
          \A y \in 0 .. world.height - 1 : \A x \in 0 .. world.width - 1 :
              /\ (world'.grid[y][x].occ = NoRef) <=> (world.grid[y][x].occ = NoRef)
              /\ world'.grid[y][x].mass = world.grid[y][x].mass
              /\ <<x, y>> \notin FracturedCells
                    => world'.grid[y][x].occ = world.grid[y][x].occ]_vars


(***************************************************************************)
(* Grid indices (specification Spec).                                      *)
(***************************************************************************)
\* The cells the next tick's update_object_velocity reads for object obj.
ObjectProbes(obj) ==
    LET next_y == obj.position[2] + obj.velocity[2] + gravity[2]
        check_y == IF next_y < 0 THEN 0 ELSE next_y
    IN  {<<AsUsize(obj.position[1] + AsF32(j)), AsUsize(check_y)>> :
            j \in 0 .. obj.object_w - 1}

\* The cell the next tick's update_velocity reads for particle p.
ParticleProbe(p) ==
    LET next_y == p.position[2] + p.velocity[2] + gravity[2]
        check_y == IF next_y < 0 THEN 0 ELSE next_y
    IN  <<AsUsize(p.position[1]), AsUsize(check_y)>>

\* C38: no operation has indexed the grid outside [0, width) x [0, height):
\* no accessor call has panicked, every particle and every cell of every
\* live object lies inside the grid, every candidate of check_way does, and
\* so does every cell the velocity updates of the next tick probe.
IndicesStayInsideGrid ==
    /\ ~world.panicked
    /\ \A k \in 1 .. Len(particles) :
          /\ particles[k].position[1] >= 0 /\ particles[k].position[2] >= 0
          /\ InGrid(world, CellOf(particles[k].position)[1],
                    CellOf(particles[k].position)[2])
          /\ InGrid(world, ParticleProbe(particles[k])[1],
                    ParticleProbe(particles[k])[2])
          /\ \A n \in 1 .. Len(check_way_values(particles[k], world)) :
                InGrid(world, check_way_values(particles[k], world)[n][2],
                       check_way_values(particles[k], world)[n][3])
    /\ \A o \in 1 .. Len(objects) :
          ~objects[o].is_destroyed =>
              /\ objects[o].position[1] >= 0 /\ objects[o].position[2] >= 0
              /\ \A i \in 0 .. objects[o].object_h - 1 :
                 \A j \in 0 .. objects[o].object_w - 1 :
                    InGrid(world,
                           CellOf(objects[o].object_grid[i][j].position)[1],
                           CellOf(objects[o].object_grid[i][j].position)[2])
              /\ \A c \in ObjectProbes(objects[o]) : InGrid(world, c[1], c[2])

\* A particle has fallen into the rightmost column onto an occupied cell
\* whose left neighbour is occupied too, and an object has come to rest.
RightColumnWitness ==
    /\ \E k \in 1 .. Len(particles) :
          LET c == CellOf(particles[k].position)
          IN  /\ c[1] = world.width - 1
              /\ c[2] > 0 /\ c[2] < world.height - 2
              /\ give_occupation_on_position(world, c[1], c[2] - 1) # NoRef
              /\ give_occupation_on_position(world, c[1] - 1, c[2] - 1) # NoRef
    /\ \E o \in 1 .. Len(objects) :
          /\ ~objects[o].is_destroyed
          /\ objects[o].velocity = <<0, 0>>
          /\ calls # {}


(***************************************************************************)
(* The bonds the fracture checks report (specification SpecObj).           *)
(***************************************************************************)
\* C39: every bond check_fracture or check_pressure_fracture reports joins
\* two adjacent non-air cells and is written ((i, j), (i, j + 1)) or
\* ((i, j), (i + 1, j)), the form in which find_fragments builds its own
\* bonds, so that find_fragments unites no two cells over a reported bond.
ReportedBondsAreCanonical ==
    last.op \in {"check_fracture", "check_pressure_fracture"} =>
        /\ \A k \in 1 .. Len(last.broken) :
              LET a == last.broken[k][1]
                  b == last.broken[k][2]
              IN  /\ a \in NonAirCells(objects[1])
                  /\ b \in NonAirCells(objects[1])
                  /\ \/ b = <<a[1], a[2] + 1>>
                     \/ b = <<a[1] + 1, a[2]>>
                  /\ last.broken[k] \in ToSet(all_bonds(objects[1]))
        /\ \A f \in last.fragments : \A c \in ToSet(f) :
              ToSet(f) = ReachFrom({c}, ToSet(all_bonds(objects[1]))
                                            \ ToSet(last.broken))

\* check_pressure_fracture has reported a bond to the cell below and a bond
\* to the right, and the object falls into several fragments.
VerticalBondReportedWitness ==
    /\ last.op = "check_pressure_fracture"
    /\ \E k \in 1 .. Len(last.broken) :
          last.broken[k][2][1] = last.broken[k][1][1] + 1
    /\ \E k \in 1 .. Len(last.broken) :
          last.broken[k][2][2] = last.broken[k][1][2] + 1
    /\ Cardinality(last.fragments) > 1

=============================================================================
